---- MODULE Spec2Model ----
(***************************************************************************)
(* A model of wkey, the hold-to-dictate service.                           *)
(*                                                                         *)
(* Part I  : the PID-file single-instance lock (wkey/single_instance.py),  *)
(*           several processes racing on one lock file.   LockSpec         *)
(* Part II : the trigger / recording / capture state machine (wkey/wkey.py)*)
(*           with its hook, audio, control and worker threads.   Spec      *)
(***************************************************************************)
EXTENDS Integers, Sequences, FiniteSets, TLC

(***************************************************************************)
(* Bounds of the model.                                                    *)
(***************************************************************************)
NPid == 2          \* process ids 1..NPid (ids are reused after a death)
MaxSpawn == 3      \* process creations in one behaviour
MaxRel == 2        \* release() calls of one process
MaxSess == 2       \* recording sessions opened in one behaviour
MaxChunks == 2     \* blocks delivered by the sound device
MaxCtl == 2        \* control operations (pause, resume, reconfiguration)
NWorkers == 2      \* transcription workers started in one behaviour
MaxCalls == 12     \* calls of the text corrector in one behaviour

Pids == 1..NPid

(***************************************************************************)
(* Part I.  The lock file, the process table and the lock clients.         *)
(***************************************************************************)
VARIABLES
  file,      \* the lock file: [exists, creator, rec]; creator names the inode
  pstat,     \* process table: pid -> "none" | "running" | "zombie"
  inv,       \* pid -> how the process at that pid was launched
  boot,      \* pid -> PidFileLock.boot_time of that process
  lpc,       \* pid -> position of the process in acquire()/release()
  active,    \* pid -> PidFileLock._active
  owner,     \* pid -> the local variable owner of acquire()/release()
  expired,   \* pid -> time.monotonic() has reached acquire()'s deadline
  termReq,   \* pid -> terminate()/kill() was delivered to the process there
  termBy,    \* pid -> pids this acquire() call asked to terminate
  termLive,  \* pid -> pids that were running when this call's signal reached them
  seenGone,  \* pid -> pids this acquire() call saw gone or zombie while waiting
  relCalls,  \* pid -> release() calls made by the process so far
  spawns     \* process creations so far

lockVars == <<file, pstat, inv, boot, lpc, active, owner, expired, termReq,
              termBy, termLive, seenGone, relCalls, spawns>>

\* _boot_signature(): psutil.boot_time(), or 0.0 when psutil fails.
BootVals == {0, 5, 6, 8}

\* How a process was launched.  m and r are wkey-tray instances (python -m
\* wkey.tray_app; python tray_app.py from the directory /app); o is an
\* unrelated python program; u is a process whose command line cannot be read
\* or is empty.
WkeyInv == {"m", "r"}
OtherInv == {"o", "u"}

\* psutil.Process(pid).cmdline() of a process launched that way.
ActualCmd(i) ==
  CASE i = "m" -> <<"/usr/bin/python", "-m", "wkey.tray_app">>
    [] i = "r" -> <<"/usr/bin/python", "tray_app.py">>
    [] i = "o" -> <<"/usr/bin/python", "/app/other.py">>
    [] OTHER   -> <<>>

\* [sys.executable or "python"] + sys.argv of a wkey-tray instance; with -m,
\* sys.argv[0] is the full path of the module's file.
CurrentCmdline(i) ==
  CASE i = "m" -> <<"/usr/bin/python", "/app/tray_app.py">>
    [] OTHER   -> ActualCmd(i)

\* os.path.abspath with the working directory /app.
Abspath(s) == IF s = "tray_app.py" THEN "/app/tray_app.py" ELSE s

EndsWithPy(s) == s \in {"/app/tray_app.py", "tray_app.py", "/app/other.py"}

\* importlib's origin of a module; "" stands for None.
ResolveModuleOrigin(m) == IF m = "wkey.tray_app" THEN "/app/tray_app.py" ELSE ""

CanonicalEntry(cmd) ==
  IF Len(cmd) < 2 THEN ""
  ELSE LET entry == cmd[2] IN
       IF entry = "-m" /\ Len(cmd) >= 3
       THEN LET origin == ResolveModuleOrigin(cmd[3]) IN
            IF origin # "" THEN Abspath(origin) ELSE cmd[3]
       ELSE IF EndsWithPy(entry) THEN Abspath(entry) ELSE ""

CommandsEquivalent(expected, actual) ==
  IF expected = actual THEN TRUE
  ELSE IF expected = <<>> \/ actual = <<>> THEN FALSE
  ELSE IF Abspath(expected[1]) # Abspath(actual[1]) THEN FALSE
  ELSE LET ee == CanonicalEntry(expected)
           ae == CanonicalEntry(actual) IN
       ee # "" /\ ae # "" /\ ee = ae

\* The lock record; NoRec stands for None (no file, empty or unparsable file).
NoRec == [pid |-> 0, cmd |-> <<>>, boot |-> 0]
NoFile == [exists |-> FALSE, creator |-> 0, rec |-> NoRec]

MyRecord(p) == [pid |-> p, cmd |-> CurrentCmdline(inv[p]), boot |-> boot[p]]

ReadOwner == IF file.exists THEN file.rec ELSE NoRec

Tolerance == 1

Abs(x) == IF x < 0 THEN -x ELSE x

\* A comparison with twice the tolerance.
SameBootWide(o, current) == Abs(o - current) <= 2 * Tolerance

SameBoot(o, current) == Abs(o - current) <= Tolerance

\* The test of acquire() line 119.
BootStale(rec, p) == rec.boot # 0 /\ ~SameBoot(rec.boot, boot[p])

\* psutil's view of the command line at a pid: a zombie has none.
CmdlineAt(q) == IF pstat[q] = "running" THEN ActualCmd(inv[q]) ELSE <<>>

ProcessMatches(q, expected_cmd) ==
  IF q <= 0 THEN FALSE
  ELSE IF pstat[q] = "none" THEN FALSE
  ELSE IF expected_cmd # <<>> /\ CmdlineAt(q) # <<>>
          /\ ~CommandsEquivalent(expected_cmd, CmdlineAt(q)) THEN FALSE
  ELSE TRUE

LockInit ==
  /\ file = NoFile
  /\ pstat = [p \in Pids |-> "none"]
  /\ inv = [p \in Pids |-> "u"]
  /\ boot = [p \in Pids |-> 0]
  /\ lpc = [p \in Pids |-> "none"]
  /\ active = [p \in Pids |-> FALSE]
  /\ owner = [p \in Pids |-> NoRec]
  /\ expired = [p \in Pids |-> FALSE]
  /\ termReq = [p \in Pids |-> FALSE]
  /\ termBy = [p \in Pids |-> {}]
  /\ termLive = [p \in Pids |-> {}]
  /\ seenGone = [p \in Pids |-> {}]
  /\ relCalls = [p \in Pids |-> 0]
  /\ spawns = 0

\* A wkey-tray process starts at a free pid: tray_app.main() builds the lock
\* (PidFileLock.__init__) and is about to call acquire().
SpawnWkey(p) ==
  /\ pstat[p] = "none"
  /\ spawns < MaxSpawn
  /\ \E i \in WkeyInv, b \in BootVals :
       /\ inv' = [inv EXCEPT ![p] = i]
       /\ boot' = [boot EXCEPT ![p] = b]
  /\ pstat' = [pstat EXCEPT ![p] = "running"]
  /\ lpc' = [lpc EXCEPT ![p] = "acq_open"]
  /\ spawns' = spawns + 1
  /\ UNCHANGED <<file, active, owner, expired, termReq, termBy, termLive,
                 seenGone, relCalls>>

\* An unrelated process starts at a free pid.
SpawnOther(p) ==
  /\ pstat[p] = "none"
  /\ spawns < MaxSpawn
  /\ \E i \in OtherInv : inv' = [inv EXCEPT ![p] = i]
  /\ pstat' = [pstat EXCEPT ![p] = "running"]
  /\ lpc' = [lpc EXCEPT ![p] = "other"]
  /\ spawns' = spawns + 1
  /\ UNCHANGED <<file, boot, active, owner, expired, termReq, termBy, termLive,
                 seenGone, relCalls>>

\* A running process dies (terminated, killed, crashed or exited): its memory
\* is gone; it stays in the process table as a zombie or leaves it.
Die(p) ==
  /\ pstat[p] = "running"
  /\ \E s \in {"none", "zombie"} : pstat' = [pstat EXCEPT ![p] = s]
  /\ inv' = [inv EXCEPT ![p] = "u"]
  /\ boot' = [boot EXCEPT ![p] = 0]
  /\ lpc' = [lpc EXCEPT ![p] = "none"]
  /\ active' = [active EXCEPT ![p] = FALSE]
  /\ owner' = [owner EXCEPT ![p] = NoRec]
  /\ expired' = [expired EXCEPT ![p] = FALSE]
  /\ termReq' = [termReq EXCEPT ![p] = FALSE]
  /\ termBy' = [termBy EXCEPT ![p] = {}]
  /\ termLive' = [termLive EXCEPT ![p] = {}]
  /\ seenGone' = [seenGone EXCEPT ![p] = {}]
  /\ relCalls' = [relCalls EXCEPT ![p] = 0]
  /\ UNCHANGED <<file, spawns>>

\* The parent reaps a zombie.
Reap(p) ==
  /\ pstat[p] = "zombie"
  /\ pstat' = [pstat EXCEPT ![p] = "none"]
  /\ UNCHANGED <<file, inv, boot, lpc, active, owner, expired, termReq, termBy,
                 termLive, seenGone, relCalls, spawns>>

\* time.monotonic() reaches the deadline of a running acquire(); the deadline
\* is read in _wait_for_exit only.
Tick(p) ==
  /\ lpc[p] = "acq_wait"
  /\ ~expired[p]
  /\ expired' = [expired EXCEPT ![p] = TRUE]
  /\ UNCHANGED <<file, pstat, inv, boot, lpc, active, owner, termReq, termBy,
                 termLive, seenGone, relCalls, spawns>>

\* acquire(), line 106: os.open(O_CREAT | O_EXCL).
AcqOpen(p) ==
  /\ lpc[p] = "acq_open"
  /\ IF file.exists
     THEN /\ lpc' = [lpc EXCEPT ![p] = "acq_read"]
          /\ file' = file
     ELSE /\ lpc' = [lpc EXCEPT ![p] = "acq_write"]
          /\ file' = [exists |-> TRUE, creator |-> p, rec |-> NoRec]
  /\ UNCHANGED <<pstat, inv, boot, active, owner, expired, termReq, termBy,
                 termLive, seenGone, relCalls, spawns>>

\* acquire(), line 109: owner = self._read_owner().
AcqRead(p) ==
  /\ lpc[p] = "acq_read"
  /\ owner' = [owner EXCEPT ![p] = ReadOwner]
  /\ lpc' = [lpc EXCEPT ![p] = "acq_check"]
  /\ UNCHANGED <<file, pstat, inv, boot, active, expired, termReq, termBy,
                 termLive, seenGone, relCalls, spawns>>

\* The decision of acquire(), lines 110-130: TRUE when the record is stale.
Stale(p) ==
  \/ owner[p] = NoRec
  \/ BootStale(owner[p], p)
  \/ ~ProcessMatches(owner[p].pid, owner[p].cmd)

AcqCheck(p) ==
  /\ lpc[p] = "acq_check"
  /\ lpc' = [lpc EXCEPT ![p] = IF Stale(p) THEN "acq_cleanup" ELSE "acq_term"]
  /\ UNCHANGED <<file, pstat, inv, boot, active, owner, expired, termReq,
                 termBy, termLive, seenGone, relCalls, spawns>>

\* acquire(), line 132: self._terminate(owner_pid).  The signal reaches the
\* process that is at that pid now, if there is one.
AcqTerminate(p) ==
  /\ lpc[p] = "acq_term"
  /\ LET q == owner[p].pid IN
       /\ termReq' = IF pstat[q] # "none" THEN [termReq EXCEPT ![q] = TRUE] ELSE termReq
       /\ termBy' = [termBy EXCEPT ![p] = @ \cup {q}]
       /\ termLive' = IF pstat[q] = "running"
                      THEN [termLive EXCEPT ![p] = @ \cup {q}] ELSE termLive
  /\ lpc' = [lpc EXCEPT ![p] = "acq_wait"]
  /\ UNCHANGED <<file, pstat, inv, boot, active, owner, expired, seenGone,
                 relCalls, spawns>>

\* _wait_for_exit returning after the first poll whatever the status was.
AcqWaitAnyStatus(p) ==
  /\ lpc[p] = "acq_wait"
  /\ lpc' = [lpc EXCEPT ![p] = IF expired[p] THEN "failed" ELSE "acq_cleanup"]
  /\ UNCHANGED <<file, pstat, inv, boot, active, owner, expired, termReq,
                 termBy, termLive, seenGone, relCalls, spawns>>

\* A _wait_for_exit that never looks at the deadline.
AcqWaitNoDeadline(p) ==
  /\ lpc[p] = "acq_wait"
  /\ LET q == owner[p].pid IN
     IF pstat[q] \in {"none", "zombie"}
     THEN /\ lpc' = [lpc EXCEPT ![p] = "acq_cleanup"]
          /\ seenGone' = [seenGone EXCEPT ![p] = @ \cup {q}]
     ELSE /\ lpc' = lpc
          /\ seenGone' = seenGone
  /\ UNCHANGED <<file, pstat, inv, boot, active, owner, expired, termReq,
                 termBy, termLive, relCalls, spawns>>

\* One round of _wait_for_exit: the deadline test, then the status poll.
AcqWait(p) ==
  /\ lpc[p] = "acq_wait"
  /\ LET q == owner[p].pid IN
     IF expired[p]
     THEN /\ lpc' = [lpc EXCEPT ![p] = "failed"]
          /\ seenGone' = seenGone
     ELSE IF pstat[q] \in {"none", "zombie"}
     THEN /\ lpc' = [lpc EXCEPT ![p] = "acq_cleanup"]
          /\ seenGone' = [seenGone EXCEPT ![p] = @ \cup {q}]
     ELSE /\ lpc' = lpc
          /\ seenGone' = seenGone
  /\ UNCHANGED <<file, pstat, inv, boot, active, owner, expired, termReq,
                 termBy, termLive, relCalls, spawns>>

\* A _cleanup_stale() that leaves the file where it is.
AcqCleanupKeepsFile(p) ==
  /\ lpc[p] = "acq_cleanup"
  /\ file' = file
  /\ lpc' = [lpc EXCEPT ![p] = "acq_open"]
  /\ UNCHANGED <<pstat, inv, boot, active, owner, expired, termReq, termBy,
                 termLive, seenGone, relCalls, spawns>>

\* _cleanup_stale(): unlink whatever is at the path, then retry the open.
AcqCleanup(p) ==
  /\ lpc[p] = "acq_cleanup"
  /\ file' = NoFile
  /\ lpc' = [lpc EXCEPT ![p] = "acq_open"]
  /\ UNCHANGED <<pstat, inv, boot, active, owner, expired, termReq, termBy,
                 termLive, seenGone, relCalls, spawns>>

\* acquire(), lines 137-151: the record goes to the inode this process
\* created, which is at the path only if nobody unlinked it meanwhile.
AcqWrite(p) ==
  /\ lpc[p] = "acq_write"
  /\ file' = IF file.exists /\ file.creator = p /\ file.rec = NoRec
             THEN [file EXCEPT !.rec = MyRecord(p)] ELSE file
  /\ active' = [active EXCEPT ![p] = TRUE]
  /\ lpc' = [lpc EXCEPT ![p] = "held"]
  /\ UNCHANGED <<pstat, inv, boot, owner, expired, termReq, termBy, termLive,
                 seenGone, relCalls, spawns>>

\* release() without its test of _active.
RelCallNoGuard(p) ==
  /\ lpc[p] \in {"held", "released"}
  /\ relCalls[p] < MaxRel
  /\ relCalls' = [relCalls EXCEPT ![p] = @ + 1]
  /\ lpc' = [lpc EXCEPT ![p] = "rel_read"]
  /\ UNCHANGED <<file, pstat, inv, boot, active, owner, expired, termReq,
                 termBy, termLive, seenGone, spawns>>

\* release(), lines 155-156: nothing happens unless _active is set.
RelCall(p) ==
  /\ lpc[p] \in {"held", "released"}
  /\ relCalls[p] < MaxRel
  /\ relCalls' = [relCalls EXCEPT ![p] = @ + 1]
  /\ lpc' = IF active[p] THEN [lpc EXCEPT ![p] = "rel_read"] ELSE lpc
  /\ UNCHANGED <<file, pstat, inv, boot, active, owner, expired, termReq,
                 termBy, termLive, seenGone, spawns>>

\* release(), lines 158-159: read the record and compare its pid; when it is
\* not this process's, the finally clause ends the call.
RelRead(p) ==
  /\ lpc[p] = "rel_read"
  /\ owner' = [owner EXCEPT ![p] = ReadOwner]
  /\ IF ReadOwner # NoRec /\ ReadOwner.pid = p
     THEN /\ lpc' = [lpc EXCEPT ![p] = "rel_unlink"]
          /\ active' = active
     ELSE /\ lpc' = [lpc EXCEPT ![p] = "released"]
          /\ active' = [active EXCEPT ![p] = FALSE]
  /\ UNCHANGED <<file, pstat, inv, boot, expired, termReq, termBy, termLive,
                 seenGone, relCalls, spawns>>

\* release(), lines 161-165: unlink(missing_ok=True), then _active = False.
RelUnlink(p) ==
  /\ lpc[p] = "rel_unlink"
  /\ file' = NoFile
  /\ active' = [active EXCEPT ![p] = FALSE]
  /\ lpc' = [lpc EXCEPT ![p] = "released"]
  /\ UNCHANGED <<pstat, inv, boot, owner, expired, termReq, termBy, termLive,
                 seenGone, relCalls, spawns>>



(***************************************************************************)
(* Part II.  The dictation service of wkey/wkey.py.                        *)
(*                                                                         *)
(* Threads: the keyboard listener ("kb": on_press, on_release), the mouse  *)
(* listener ("ms": on_click), the control thread (set_paused,              *)
(* refresh_configuration, _set_continuous_listen), the audio callback and  *)
(* one worker per finished recording.  A handler is a sequence of steps,   *)
(* one per access to the shared state; a block under audio_lock or         *)
(* audio_stream_lock is one step.                                          *)
(***************************************************************************)
VARIABLES
  HOTKEY_PARTS,        \* set of key names of the hotkey
  key_label,           \* the hotkey label in effect
  pressed_keys,        \* names of the keys the service believes are down
  MOUSE_BUTTON,        \* "none" or the trigger button
  mouse_button_label,  \* the mouse label in effect
  mouse_pressed,
  keyboard_enabled,
  mouse_enabled,
  continuous_listen,
  paused,
  recording,
  audio_data,          \* the buffer: a sequence of chunks
  audio_stream,        \* TRUE when the handle audio_stream is not None
  live,                \* microphone streams started and not yet stopped
  envKey,              \* os.environ["WKEY"]: [set, val]
  envMouse,            \* os.environ["WKEY_MOUSE_BUTTON"]: [set, val]
  errors,              \* kinds of error handed to _report_error since the last event
  workers,             \* the worker threads started: sequence of [sess, chunks]
  held,                \* keys physically down
  mheld,               \* the middle mouse button is physically down
  hpc,                 \* hook thread -> position in its handler
  hstream,             \* hook thread -> local stream of _stop_audio_capture
  hchunks,             \* hook thread -> local audio_chunks
  hpre,                \* hook thread -> _triggers_active() before the event
  cpc,                 \* position of the control thread
  carg,                \* argument of the running control operation
  cstream,             \* control thread: local stream of _stop_audio_capture
  apc,                 \* audio callback: "idle" or "append"
  sess,                \* recording sessions opened so far
  delivered,           \* blocks the sound device has delivered so far
  captured,            \* the chunks captured since the last session was opened
  ctlOps               \* control operations called so far

svcVars == <<HOTKEY_PARTS, key_label, pressed_keys, MOUSE_BUTTON,
             mouse_button_label, mouse_pressed, keyboard_enabled, mouse_enabled,
             continuous_listen, paused, recording, audio_data, audio_stream,
             live, envKey, envMouse, errors, workers, held, mheld, hpc, hstream,
             hchunks, hpre, cpc, carg, cstream, apc, sess, delivered, captured,
             ctlOps>>

(***************************************************************************)
(* Part III: the transcription workers (wkey/wkey.py, lines 271-372).      *)
(***************************************************************************)
VARIABLES
  raw,                 \* the buffer handed to _is_silence
  silent,              \* its verdict: "none" until _is_silence has returned
  backend,             \* the backend whisper/__init__.py loaded
  wpc,                 \* position of each worker thread
  wsnap,               \* the snapshot (audio_chunks) each worker was given
  wtext,               \* the transcript each worker got back
  wlog,                \* provider calls, failures, reported errors and
                       \* injections, in order
  LLM_CORRECT,         \* os.environ["LLM_CORRECT"]
  CHINESE_CONVERSION,  \* the conversion code, "" when none is configured
  wcur,                \* the text each worker is working on: the provider's
                       \* text followed by the stages applied to it
  history,             \* the corrector's deque of corrected transcripts
  good,                \* every successfully corrected transcript, in order
  ncalls,              \* calls of the corrector so far
  clast,               \* the last corrector call: its input and what it gave
  chosen,              \* the settings object the caller of
                       \* refresh_configuration holds
  rpc,                 \* position of the thread executing run()
  mainpc,              \* position of each process in tray_app.main()
  born                 \* block id -> the session that was recording when
                       \* the device delivered it (0: none was)

wrkVars == <<raw, silent, backend, wpc, wsnap, wtext, wlog, LLM_CORRECT,
             CHINESE_CONVERSION, wcur, history, good, ncalls, clast, chosen,
             rpc, mainpc, born>>

\* refresh_configuration() called without a settings object.
NoSettings ==
  [hotkey |-> <<"<none>">>, mouse_button |-> "<none>", kb |-> FALSE,
   ms |-> FALSE, cont |-> FALSE]

Workers == 1..NWorkers

NoCall == [t |-> <<>>, o |-> "none", raised |-> FALSE, text |-> <<>>]

\* No worker has been started and the corrector has not been called.
WrkIdle ==
  /\ wpc = [w \in Workers |-> "none"]
  /\ wsnap = [w \in Workers |-> <<>>]
  /\ wtext = [w \in Workers |-> ""]
  /\ wcur = [w \in Workers |-> <<>>]
  /\ wlog = <<>>
  /\ history = <<>>
  /\ good = <<>>
  /\ ncalls = 0
  /\ clast = NoCall
  /\ chosen = NoSettings
  /\ rpc = "loop"
  /\ mainpc = [p \in Pids |-> "lock"]
  /\ born = [i \in 1..MaxChunks |-> 0]

\* No worker has been started and _is_silence has not been called.
WrkInit ==
  /\ raw = <<>>
  /\ silent = "none"
  /\ backend = "groq"
  /\ LLM_CORRECT = ""
  /\ CHINESE_CONVERSION = ""
  /\ WrkIdle

vars == <<lockVars, svcVars, wrkVars>>

Hooks == {"kb", "ms"}

\* pynput.keyboard.Key member names the model knows.
KeyNames == {"ctrl_r", "shift"}

\* Physical keys: a named key and a letter key, which reports the character
\* "d" or "D" depending on the shift state.
PhysKeys == {"ctrl_r", "d"}
CharsOf(k) == IF k = "d" THEN {"d", "D"} ELSE {k}

\* str.lower() and str.strip() on the strings of the model.
Lower(c) == IF c = "D" THEN "d" ELSE c
Strip(c) == IF c = " d" THEN "d" ELSE c
IsSingleChar(c) == c \in {"d", "D"}

\* _key_name(key): Key -> its name, KeyCode with a char -> the char lower-cased.
KeyName(c) == IF c \in KeyNames THEN c ELSE Lower(c)

\* A hotkey label is modelled by label.split("+"); <<>> is the empty label.
\* _parse_hotkey, the loop: the parts parsed, or <<"!">> once a part is unknown.
RECURSIVE ParseParts(_)
ParseParts(raws) ==
  IF raws = <<>> THEN <<>>
  ELSE LET part == Strip(Head(raws))
           rest == ParseParts(Tail(raws)) IN
       IF rest = <<"!">> THEN rest
       ELSE IF part = "" THEN rest
       ELSE IF IsSingleChar(part) THEN <<Lower(part)>> \o rest
       ELSE IF part \in KeyNames THEN <<part>> \o rest
       ELSE <<"!">>

\* _parse_hotkey(label): [ok, parts]; ok is FALSE where the code raises ValueError.
ParseHotkey(label) ==
  LET ps == ParseParts(label) IN
  IF ps = <<"!">> \/ ps = <<>> THEN [ok |-> FALSE, parts |-> {}]
  ELSE [ok |-> TRUE, parts |-> {ps[i] : i \in 1..Len(ps)}]

\* _parse_mouse_button(label): label.strip().lower() looked up in the mapping.
ParseMouseButton(label) ==
  CASE label = ""       -> [ok |-> TRUE, button |-> "none"]
    [] label = "middle" -> [ok |-> TRUE, button |-> "middle"]
    [] label = "Mouse3" -> [ok |-> TRUE, button |-> "middle"]
    [] label = "x1"     -> [ok |-> TRUE, button |-> "x1"]
    [] OTHER            -> [ok |-> FALSE, button |-> "none"]

\* A hotkey check that is satisfied by any one key of the combination.
HotkeyActiveAnyPart ==
  keyboard_enabled /\ HOTKEY_PARTS \cap pressed_keys # {}

\* _hotkey_active().
HotkeyActive ==
  keyboard_enabled /\ HOTKEY_PARTS # {} /\ HOTKEY_PARTS \subseteq pressed_keys

\* _mouse_active().
MouseActive == mouse_enabled /\ MOUSE_BUTTON # "none" /\ mouse_pressed

\* A combined check that wants both triggers when both are enabled.
TriggersActiveBoth ==
  IF keyboard_enabled /\ mouse_enabled THEN HotkeyActive /\ MouseActive
  ELSE IF keyboard_enabled THEN HotkeyActive
  ELSE IF mouse_enabled THEN MouseActive
  ELSE FALSE

\* _triggers_active().
TriggersActive ==
  IF keyboard_enabled /\ mouse_enabled THEN HotkeyActive \/ MouseActive
  ELSE IF keyboard_enabled THEN HotkeyActive
  ELSE IF mouse_enabled THEN MouseActive
  ELSE FALSE

Unset == [set |-> FALSE, val |-> <<>>]
UnsetM == [set |-> FALSE, val |-> ""]

\* Settings objects handed to refresh_configuration: hotkey, mouse_button,
\* enable_keyboard_shortcut, enable_mouse_shortcut, continuous_listen.
SettingsChoices ==
  { [hotkey |-> <<"D">>, mouse_button |-> "Mouse3", kb |-> TRUE, ms |-> TRUE, cont |-> FALSE],
    [hotkey |-> <<"ctrl_r", " d">>, mouse_button |-> "x1", kb |-> TRUE, ms |-> FALSE, cont |-> TRUE],
    [hotkey |-> <<>>, mouse_button |-> "", kb |-> FALSE, ms |-> TRUE, cont |-> TRUE],
    [hotkey |-> <<"bogus">>, mouse_button |-> "bogus", kb |-> TRUE, ms |-> TRUE, cont |-> TRUE] }

NoArg == [op |-> "none", value |-> FALSE, settings |-> NoSettings]

\* The state once the module wkey.wkey has been imported: the labels have been
\* applied (lines 104, 144, 163, 164) and _set_continuous_listen (line 286)
\* has opened the microphone when continuous listening is on.
SvcInit ==
  /\ key_label \in {<<"ctrl_r">>, <<"ctrl_r", " d">>}
  /\ HOTKEY_PARTS = ParseHotkey(key_label).parts
  /\ envKey = [set |-> TRUE, val |-> key_label]
  /\ mouse_button_label = "middle"
  /\ MOUSE_BUTTON = ParseMouseButton(mouse_button_label).button
  /\ envMouse = IF mouse_button_label = "" THEN UnsetM
                ELSE [set |-> TRUE, val |-> mouse_button_label]
  /\ keyboard_enabled \in BOOLEAN
  /\ mouse_enabled \in BOOLEAN
  /\ continuous_listen \in BOOLEAN
  /\ pressed_keys = {}
  /\ mouse_pressed = FALSE
  /\ paused = FALSE
  /\ recording = FALSE
  /\ audio_data = <<>>
  /\ audio_stream \in (IF continuous_listen THEN BOOLEAN ELSE {FALSE})
  /\ live = IF audio_stream THEN 1 ELSE 0
  /\ errors = IF continuous_listen /\ ~audio_stream THEN {"capture"} ELSE {}
  /\ workers = <<>>
  /\ held = {}
  /\ mheld = FALSE
  /\ hpc = [t \in Hooks |-> "idle"]
  /\ hstream = [t \in Hooks |-> FALSE]
  /\ hchunks = [t \in Hooks |-> <<>>]
  /\ hpre = [t \in Hooks |-> FALSE]
  /\ cpc = "idle"
  /\ carg = NoArg
  /\ cstream = FALSE
  /\ apc = "idle"
  /\ sess = 0
  /\ delivered = 0
  /\ captured = <<>>
  /\ ctlOps = 0

\* ---- the keyboard listener thread ----

\* A key goes down (or auto-repeats) and pynput calls on_press(key).
KeyDown(k, c) ==
  /\ hpc["kb"] = "idle"
  /\ sess < MaxSess
  /\ held' = held \cup {k}
  /\ IF paused
     THEN UNCHANGED <<pressed_keys, hpc, hpre>>
     ELSE /\ pressed_keys' = pressed_keys \cup {KeyName(c)}
          /\ hpre' = [hpre EXCEPT !["kb"] = TriggersActive]
          /\ hpc' = [hpc EXCEPT !["kb"] = "start_chk"]
  /\ errors' = {}
  /\ UNCHANGED <<HOTKEY_PARTS, key_label, MOUSE_BUTTON, mouse_button_label,
                 mouse_pressed, keyboard_enabled, mouse_enabled,
                 continuous_listen, paused, recording, audio_data,
                 audio_stream, live, envKey, envMouse, workers, mheld, hstream,
                 hchunks, cpc, carg, cstream, apc, sess, delivered, captured,
                 ctlOps, lockVars, wrkVars>>

\* A key goes up and pynput calls on_release(key).
KeyUp(k, c) ==
  /\ hpc["kb"] = "idle"
  /\ k \in held
  /\ held' = held \ {k}
  /\ IF paused
     THEN UNCHANGED <<pressed_keys, hpc, hpre>>
     ELSE /\ pressed_keys' = pressed_keys \ {KeyName(c)}
          /\ hpre' = [hpre EXCEPT !["kb"] = TriggersActive]
          /\ hpc' = [hpc EXCEPT !["kb"] = "stop_chk"]
  /\ errors' = {}
  /\ UNCHANGED <<HOTKEY_PARTS, key_label, MOUSE_BUTTON, mouse_button_label,
                 mouse_pressed, keyboard_enabled, mouse_enabled,
                 continuous_listen, paused, recording, audio_data,
                 audio_stream, live, envKey, envMouse, workers, mheld, hstream,
                 hchunks, cpc, carg, cstream, apc, sess, delivered, captured,
                 ctlOps, lockVars, wrkVars>>

\* ---- the mouse listener thread ----

\* The middle button goes down or up and pynput calls on_click.
MouseClick(pressed) ==
  /\ hpc["ms"] = "idle"
  /\ pressed => sess < MaxSess
  /\ mheld = ~pressed
  /\ mheld' = pressed
  /\ IF paused \/ MOUSE_BUTTON = "none" \/ MOUSE_BUTTON # "middle"
     THEN UNCHANGED <<mouse_pressed, hpc, hpre>>
     ELSE /\ mouse_pressed' = pressed
          /\ hpre' = [hpre EXCEPT !["ms"] = TriggersActive]
          /\ hpc' = [hpc EXCEPT !["ms"] = IF pressed THEN "start_chk" ELSE "stop_chk"]
  /\ errors' = {}
  /\ UNCHANGED <<HOTKEY_PARTS, key_label, pressed_keys, MOUSE_BUTTON,
                 mouse_button_label, keyboard_enabled, mouse_enabled,
                 continuous_listen, paused, recording, audio_data,
                 audio_stream, live, envKey, envMouse, workers, held, hstream,
                 hchunks, cpc, carg, cstream, apc, sess, delivered, captured,
                 ctlOps, lockVars, wrkVars>>

\* ---- _maybe_start_recording and _maybe_stop_recording, on a hook thread ----

\* The hook thread t moves to position nxt of its handler.
Goto(t, nxt) ==
  /\ hpc' = [hpc EXCEPT ![t] = nxt]
  /\ hpre' = IF nxt = "idle" THEN [hpre EXCEPT ![t] = FALSE] ELSE hpre

\* A start check that does not look at the triggers.
StartCheckNoTrigger(t) ==
  /\ hpc[t] = "start_chk"
  /\ Goto(t, IF recording \/ paused THEN "idle" ELSE "start_cap")
  /\ UNCHANGED <<HOTKEY_PARTS, key_label, pressed_keys, MOUSE_BUTTON,
                 mouse_button_label, mouse_pressed, keyboard_enabled,
                 mouse_enabled, continuous_listen, paused, recording,
                 audio_data, audio_stream, live, envKey, envMouse, errors,
                 workers, held, mheld, hstream, hchunks, cpc, carg, cstream,
                 apc, sess, delivered, captured, ctlOps, lockVars, wrkVars>>

\* _maybe_start_recording, line 411.
StartCheck(t) ==
  /\ hpc[t] = "start_chk"
  /\ Goto(t, IF recording \/ paused \/ ~TriggersActive THEN "idle" ELSE "start_cap")
  /\ UNCHANGED <<HOTKEY_PARTS, key_label, pressed_keys, MOUSE_BUTTON,
                 mouse_button_label, mouse_pressed, keyboard_enabled,
                 mouse_enabled, continuous_listen, paused, recording,
                 audio_data, audio_stream, live, envKey, envMouse, errors,
                 workers, held, mheld, hstream, hchunks, cpc, carg, cstream,
                 apc, sess, delivered, captured, ctlOps, lockVars, wrkVars>>

\* A capture start that fails without reporting the error.
StartAudioCaptureSilent(ok) ==
  IF audio_stream THEN [stream |-> TRUE, live |-> live, errors |-> errors, result |-> TRUE]
  ELSE IF ok THEN [stream |-> TRUE, live |-> live + 1, errors |-> errors, result |-> TRUE]
  ELSE [stream |-> FALSE, live |-> live, errors |-> errors, result |-> FALSE]

\* _start_audio_capture(), the whole body under audio_stream_lock; ok is
\* whether the device can be opened.  Gives the new handle, stream count and
\* errors.
StartAudioCapture(ok) ==
  IF audio_stream THEN [stream |-> TRUE, live |-> live, errors |-> errors, result |-> TRUE]
  ELSE IF ok THEN [stream |-> TRUE, live |-> live + 1, errors |-> errors, result |-> TRUE]
  ELSE [stream |-> FALSE, live |-> live, errors |-> errors \cup {"capture"}, result |-> FALSE]

\* _maybe_start_recording, line 413.
StartCapture(t) ==
  /\ hpc[t] = "start_cap"
  /\ \E ok \in BOOLEAN :
       LET r == StartAudioCapture(ok) IN
       /\ audio_stream' = r.stream
       /\ live' = r.live
       /\ errors' = r.errors
       /\ Goto(t, IF r.result THEN "start_flag" ELSE "idle")
  /\ UNCHANGED <<HOTKEY_PARTS, key_label, pressed_keys, MOUSE_BUTTON,
                 mouse_button_label, mouse_pressed, keyboard_enabled,
                 mouse_enabled, continuous_listen, paused, recording,
                 audio_data, envKey, envMouse, workers, held, mheld, hstream,
                 hchunks, cpc, carg, cstream, apc, sess, delivered, captured,
                 ctlOps, lockVars, wrkVars>>

\* _maybe_start_recording, line 415: recording = True.
StartFlag(t) ==
  /\ hpc[t] = "start_flag"
  /\ recording' = TRUE
  /\ sess' = sess + 1
  /\ captured' = <<>>
  /\ Goto(t, "start_reset")
  /\ UNCHANGED <<HOTKEY_PARTS, key_label, pressed_keys, MOUSE_BUTTON,
                 mouse_button_label, mouse_pressed, keyboard_enabled,
                 mouse_enabled, continuous_listen, paused, audio_data,
                 audio_stream, live, envKey, envMouse, errors, workers, held,
                 mheld, hstream, hchunks, cpc, carg, cstream, apc, delivered,
                 ctlOps, lockVars, wrkVars>>

\* _maybe_start_recording, lines 416-417: the buffer is reset under audio_lock.
StartReset(t) ==
  /\ hpc[t] = "start_reset"
  /\ audio_data' = <<>>
  /\ Goto(t, "idle")
  /\ UNCHANGED <<HOTKEY_PARTS, key_label, pressed_keys, MOUSE_BUTTON,
                 mouse_button_label, mouse_pressed, keyboard_enabled,
                 mouse_enabled, continuous_listen, paused, recording,
                 audio_stream, live, envKey, envMouse, errors, workers, held,
                 mheld, hstream, hchunks, cpc, carg, cstream, apc, sess,
                 delivered, captured, ctlOps, lockVars, wrkVars>>

\* _maybe_stop_recording, line 423.
StopCheck(t) ==
  /\ hpc[t] = "stop_chk"
  /\ Goto(t, IF ~recording \/ TriggersActive THEN "idle" ELSE "stop_flag")
  /\ UNCHANGED <<HOTKEY_PARTS, key_label, pressed_keys, MOUSE_BUTTON,
                 mouse_button_label, mouse_pressed, keyboard_enabled,
                 mouse_enabled, continuous_listen, paused, recording,
                 audio_data, audio_stream, live, envKey, envMouse, errors,
                 workers, held, mheld, hstream, hchunks, cpc, carg, cstream,
                 apc, sess, delivered, captured, ctlOps, lockVars, wrkVars>>

\* _maybe_stop_recording, line 425: recording = False.
StopFlag(t) ==
  /\ hpc[t] = "stop_flag"
  /\ recording' = FALSE
  /\ Goto(t, "stop_cap")
  /\ UNCHANGED <<HOTKEY_PARTS, key_label, pressed_keys, MOUSE_BUTTON,
                 mouse_button_label, mouse_pressed, keyboard_enabled,
                 mouse_enabled, continuous_listen, paused, audio_data,
                 audio_stream, live, envKey, envMouse, errors, workers, held,
                 mheld, hstream, hchunks, cpc, carg, cstream, apc, sess,
                 delivered, captured, ctlOps, lockVars, wrkVars>>

\* A stop that leaves the stream alone in continuous-listen mode even when
\* forced.
StopAudioCaptureUnforced(force) ==
  IF continuous_listen
  THEN [stream |-> audio_stream, taken |-> FALSE]
  ELSE [stream |-> FALSE, taken |-> audio_stream]

\* _stop_audio_capture(force), lines 243-247: nothing in continuous-listen mode
\* unless forced; else the handle is taken and cleared under audio_stream_lock.
\* Gives the new handle and whether a stream is left to stop and close.
StopAudioCapture(force) ==
  IF ~force /\ continuous_listen
  THEN [stream |-> audio_stream, taken |-> FALSE]
  ELSE [stream |-> FALSE, taken |-> audio_stream]

\* _maybe_stop_recording, line 427: _stop_audio_capture().
StopCapture(t) ==
  /\ hpc[t] = "stop_cap"
  /\ LET r == StopAudioCapture(FALSE) IN
       /\ audio_stream' = r.stream
       /\ hstream' = [hstream EXCEPT ![t] = r.taken]
       /\ Goto(t, IF r.taken THEN "stop_close" ELSE "stop_drain")
  /\ UNCHANGED <<HOTKEY_PARTS, key_label, pressed_keys, MOUSE_BUTTON,
                 mouse_button_label, mouse_pressed, keyboard_enabled,
                 mouse_enabled, continuous_listen, paused, recording,
                 audio_data, live, envKey, envMouse, errors, workers, held,
                 mheld, hchunks, cpc, carg, cstream, apc, sess, delivered,
                 captured, ctlOps, lockVars, wrkVars>>

\* _stop_audio_capture, lines 250-258: stream.stop() and stream.close();
\* stop() returns once the callback in progress has returned.
StopClose(t) ==
  /\ hpc[t] = "stop_close"
  /\ apc = "idle"
  /\ live' = live - 1
  /\ hstream' = [hstream EXCEPT ![t] = FALSE]
  /\ Goto(t, "stop_drain")
  /\ UNCHANGED <<HOTKEY_PARTS, key_label, pressed_keys, MOUSE_BUTTON,
                 mouse_button_label, mouse_pressed, keyboard_enabled,
                 mouse_enabled, continuous_listen, paused, recording,
                 audio_data, audio_stream, envKey, envMouse, errors, workers,
                 held, mheld, hchunks, cpc, carg, cstream, apc, sess,
                 delivered, captured, ctlOps, lockVars, wrkVars>>

\* _maybe_stop_recording, lines 429-431: the buffer is swapped out under
\* audio_lock.
StopDrain(t) ==
  /\ hpc[t] = "stop_drain"
  /\ hchunks' = [hchunks EXCEPT ![t] = audio_data]
  /\ audio_data' = <<>>
  /\ Goto(t, "stop_spawn")
  /\ UNCHANGED <<HOTKEY_PARTS, key_label, pressed_keys, MOUSE_BUTTON,
                 mouse_button_label, mouse_pressed, keyboard_enabled,
                 mouse_enabled, continuous_listen, paused, recording,
                 audio_stream, live, envKey, envMouse, errors, workers, held,
                 mheld, hstream, cpc, carg, cstream, apc, sess, delivered,
                 captured, ctlOps, lockVars, wrkVars>>

\* _maybe_stop_recording, line 438: the worker thread is started.
StopSpawn(t) ==
  /\ hpc[t] = "stop_spawn"
  /\ workers' = Append(workers, [sess |-> sess, chunks |-> hchunks[t]])
  /\ hchunks' = [hchunks EXCEPT ![t] = <<>>]
  /\ Goto(t, "idle")
  /\ UNCHANGED <<HOTKEY_PARTS, key_label, pressed_keys, MOUSE_BUTTON,
                 mouse_button_label, mouse_pressed, keyboard_enabled,
                 mouse_enabled, continuous_listen, paused, recording,
                 audio_data, audio_stream, live, envKey, envMouse, errors,
                 held, mheld, hstream, cpc, carg, cstream, apc, sess,
                 delivered, captured, ctlOps, lockVars, wrkVars>>

\* ---- the audio callback thread ----

\* The device delivers a block: _audio_callback reads recording (line 218).
AudioCheck ==
  /\ apc = "idle"
  /\ live > 0
  /\ delivered < MaxChunks
  /\ delivered' = delivered + 1
  /\ apc' = IF recording THEN "append" ELSE "idle"
  /\ UNCHANGED <<HOTKEY_PARTS, key_label, pressed_keys, MOUSE_BUTTON,
                 mouse_button_label, mouse_pressed, keyboard_enabled,
                 mouse_enabled, continuous_listen, paused, recording,
                 audio_data, audio_stream, live, envKey, envMouse, errors,
                 workers, held, mheld, hpc, hstream, hchunks, hpre, cpc, carg,
                 cstream, sess, captured, ctlOps, lockVars, wrkVars>>

\* _audio_callback, lines 219-220: the block is captured under audio_lock.
AudioAppend ==
  /\ apc = "append"
  /\ audio_data' = Append(audio_data, [id |-> delivered, sess |-> sess])
  /\ captured' = Append(captured, [id |-> delivered, sess |-> sess])
  /\ apc' = "idle"
  /\ UNCHANGED <<HOTKEY_PARTS, key_label, pressed_keys, MOUSE_BUTTON,
                 mouse_button_label, mouse_pressed, keyboard_enabled,
                 mouse_enabled, continuous_listen, paused, recording,
                 audio_stream, live, envKey, envMouse, errors, workers, held,
                 mheld, hpc, hstream, hchunks, hpre, cpc, carg, cstream, sess,
                 delivered, ctlOps, lockVars, wrkVars>>

\* ---- the control thread ----

\* set_paused(value), line 510: paused = value.
CallSetPaused(v) ==
  /\ cpc = "idle"
  /\ ctlOps < MaxCtl
  /\ ctlOps' = ctlOps + 1
  /\ paused' = v
  /\ carg' = [NoArg EXCEPT !.op = "set_paused", !.value = v]
  /\ cpc' = IF v THEN "p_flag" ELSE "p_resume"
  /\ errors' = {}
  /\ UNCHANGED <<HOTKEY_PARTS, key_label, pressed_keys, MOUSE_BUTTON,
                 mouse_button_label, mouse_pressed, keyboard_enabled,
                 mouse_enabled, continuous_listen, recording, audio_data,
                 audio_stream, live, envKey, envMouse, workers, held, mheld,
                 hpc, hstream, hchunks, hpre, cstream, apc, sess, delivered,
                 captured, lockVars, wrkVars>>

\* set_paused, lines 512-513.
PauseFlag ==
  /\ cpc = "p_flag"
  /\ recording' = FALSE
  /\ cpc' = "p_cap"
  /\ UNCHANGED <<HOTKEY_PARTS, key_label, pressed_keys, MOUSE_BUTTON,
                 mouse_button_label, mouse_pressed, keyboard_enabled,
                 mouse_enabled, continuous_listen, paused, audio_data,
                 audio_stream, live, envKey, envMouse, errors, workers, held,
                 mheld, hpc, hstream, hchunks, hpre, carg, cstream, apc, sess,
                 delivered, captured, ctlOps, lockVars, wrkVars>>

\* The end of a control operation.
CtlDone(nxt) ==
  /\ cpc' = nxt
  /\ carg' = IF nxt = "idle" THEN NoArg ELSE carg

\* set_paused, lines 514-516: _stop_audio_capture(force=True); the assignment
\* audio_data = [] that follows binds a local name of set_paused (audio_data is
\* not among its globals), so the buffer is left as it is.
PauseCapture ==
  /\ cpc = "p_cap"
  /\ LET r == StopAudioCapture(TRUE) IN
       /\ audio_stream' = r.stream
       /\ cstream' = r.taken
       /\ CtlDone(IF r.taken THEN "x_close" ELSE "idle")
  /\ UNCHANGED <<HOTKEY_PARTS, key_label, pressed_keys, MOUSE_BUTTON,
                 mouse_button_label, mouse_pressed, keyboard_enabled,
                 mouse_enabled, continuous_listen, paused, recording,
                 audio_data, live, envKey, envMouse, errors, workers, held,
                 mheld, hpc, hstream, hchunks, hpre, apc, sess, delivered,
                 captured, ctlOps, lockVars, wrkVars>>

\* _stop_audio_capture, lines 250-258, on the control thread.
CtlClose ==
  /\ cpc = "x_close"
  /\ apc = "idle"
  /\ live' = live - 1
  /\ cstream' = FALSE
  /\ CtlDone("idle")
  /\ UNCHANGED <<HOTKEY_PARTS, key_label, pressed_keys, MOUSE_BUTTON,
                 mouse_button_label, mouse_pressed, keyboard_enabled,
                 mouse_enabled, continuous_listen, paused, recording,
                 audio_data, audio_stream, envKey, envMouse, errors, workers,
                 held, mheld, hpc, hstream, hchunks, hpre, apc, sess,
                 delivered, captured, ctlOps, lockVars, wrkVars>>

\* A resume that never starts the capture.
PauseResumeNoStart ==
  /\ cpc = "p_resume"
  /\ CtlDone("idle")
  /\ UNCHANGED <<HOTKEY_PARTS, key_label, pressed_keys, MOUSE_BUTTON,
                 mouse_button_label, mouse_pressed, keyboard_enabled,
                 mouse_enabled, continuous_listen, paused, recording,
                 audio_data, audio_stream, live, envKey, envMouse, errors,
                 workers, held, mheld, hpc, hstream, hchunks, hpre, cstream,
                 apc, sess, delivered, captured, ctlOps, lockVars, wrkVars>>

\* set_paused, lines 517-519: on resume the capture is restarted in
\* continuous-listen mode.
PauseResume ==
  /\ cpc = "p_resume"
  /\ \E ok \in BOOLEAN :
       LET r == StartAudioCapture(ok) IN
       IF continuous_listen
       THEN /\ audio_stream' = r.stream
            /\ live' = r.live
            /\ errors' = r.errors
       ELSE UNCHANGED <<audio_stream, live, errors>>
  /\ CtlDone("idle")
  /\ UNCHANGED <<HOTKEY_PARTS, key_label, pressed_keys, MOUSE_BUTTON,
                 mouse_button_label, mouse_pressed, keyboard_enabled,
                 mouse_enabled, continuous_listen, paused, recording,
                 audio_data, envKey, envMouse, workers, held, mheld, hpc,
                 hstream, hchunks, hpre, cstream, apc, sess, delivered,
                 captured, ctlOps, lockVars, wrkVars>>

\* apply_settings(settings) on one of the variables that may be empty.
ApplyEnv(env, candidate, empty) ==
  IF candidate = empty THEN [set |-> FALSE, val |-> empty]
  ELSE [set |-> TRUE, val |-> candidate]

\* A _set_record_key that leaves pressed_keys as it is.
SetRecordKeyKeepsPressed(label, env) ==
  IF label = <<>>
  THEN [parts |-> {}, pressed |-> pressed_keys, label |-> <<>>, env |-> Unset,
        errors |-> {}]
  ELSE LET r == ParseHotkey(label) IN
       IF r.ok
       THEN [parts |-> r.parts, pressed |-> pressed_keys, label |-> label,
             env |-> [set |-> TRUE, val |-> label], errors |-> {}]
       ELSE [parts |-> HOTKEY_PARTS, pressed |-> pressed_keys, label |-> key_label,
             env |-> env, errors |-> {"hotkey"}]

\* _set_record_key(label), with os.environ["WKEY"] being env at the call:
\* the new HOTKEY_PARTS, pressed_keys, key_label, os.environ["WKEY"], and the
\* kinds of error reported.
SetRecordKey(label, env) ==
  IF label = <<>>
  THEN [parts |-> {}, pressed |-> {}, label |-> <<>>, env |-> Unset, errors |-> {}]
  ELSE LET r == ParseHotkey(label) IN
       IF r.ok
       THEN [parts |-> r.parts, pressed |-> {}, label |-> label,
             env |-> [set |-> TRUE, val |-> label], errors |-> {}]
       ELSE [parts |-> HOTKEY_PARTS, pressed |-> pressed_keys, label |-> key_label,
             env |-> env, errors |-> {"hotkey"}]

\* refresh_configuration(settings), lines 188-192: apply_settings, then
\* _set_record_key with the label found in os.environ or in the settings.
CallRefresh(st) ==
  /\ cpc = "idle"
  /\ ctlOps < MaxCtl
  /\ ctlOps' = ctlOps + 1
  /\ LET env1 == IF st = NoSettings THEN envKey ELSE ApplyEnv(envKey, st.hotkey, <<>>)
         hotkey == IF env1.set THEN env1.val
                   ELSE IF st = NoSettings THEN key_label ELSE st.hotkey
         r == SetRecordKey(hotkey, env1) IN
       /\ HOTKEY_PARTS' = r.parts
       /\ pressed_keys' = r.pressed
       /\ key_label' = r.label
       /\ envKey' = r.env
       /\ errors' = r.errors
  /\ carg' = [NoArg EXCEPT !.op = "refresh", !.settings = st]
  /\ cpc' = "r_mouse"
  /\ UNCHANGED <<MOUSE_BUTTON, mouse_button_label, mouse_pressed,
                 keyboard_enabled, mouse_enabled, continuous_listen, paused,
                 recording, audio_data, audio_stream, live, envMouse, workers,
                 held, mheld, hpc, hstream, hchunks, hpre, cstream, apc, sess,
                 delivered, captured, lockVars, wrkVars>>

\* refresh_configuration, lines 193-195: _set_mouse_button.
RefreshMouse ==
  /\ cpc = "r_mouse"
  /\ LET st == carg.settings
         env1 == IF st = NoSettings THEN envMouse ELSE ApplyEnv(envMouse, st.mouse_button, "")
         label == IF env1.set THEN env1.val
                  ELSE IF st = NoSettings THEN mouse_button_label ELSE st.mouse_button
         r == ParseMouseButton(label) IN
       IF r.ok
       THEN /\ MOUSE_BUTTON' = r.button
            /\ mouse_pressed' = FALSE
            /\ mouse_button_label' = label
            /\ envMouse' = IF r.button = "none" THEN UnsetM ELSE [set |-> TRUE, val |-> label]
            /\ errors' = errors
       ELSE /\ errors' = errors \cup {"mouse"}
            /\ envMouse' = env1
            /\ UNCHANGED <<MOUSE_BUTTON, mouse_pressed, mouse_button_label>>
  /\ cpc' = "r_kben"
  /\ UNCHANGED <<HOTKEY_PARTS, key_label, pressed_keys, keyboard_enabled,
                 mouse_enabled, continuous_listen, paused, recording,
                 audio_data, audio_stream, live, envKey, workers, held, mheld,
                 hpc, hstream, hchunks, hpre, carg, cstream, apc, sess,
                 delivered, captured, ctlOps, lockVars, wrkVars>>

\* refresh_configuration, lines 196-198: _set_keyboard_enabled.  The variable
\* WKEY_KEYBOARD_ENABLED is always in os.environ (line 152): it holds the
\* settings' value after apply_settings, the current value without settings.
RefreshKeyboardEnabled ==
  /\ cpc = "r_kben"
  /\ LET enabled == IF carg.settings = NoSettings THEN keyboard_enabled
                    ELSE carg.settings.kb IN
       /\ keyboard_enabled' = enabled
       /\ pressed_keys' = IF enabled THEN pressed_keys ELSE {}
  /\ cpc' = "r_msen"
  /\ UNCHANGED <<HOTKEY_PARTS, key_label, MOUSE_BUTTON, mouse_button_label,
                 mouse_pressed, mouse_enabled, continuous_listen, paused,
                 recording, audio_data, audio_stream, live, envKey, envMouse,
                 errors, workers, held, mheld, hpc, hstream, hchunks, hpre,
                 carg, cstream, apc, sess, delivered, captured, ctlOps,
                 lockVars, wrkVars>>

\* A refresh that flips the mouse flag instead of setting it.
RefreshMouseEnabledFlipped ==
  /\ cpc = "r_msen"
  /\ mouse_enabled' = ~mouse_enabled
  /\ mouse_pressed' = FALSE
  /\ cpc' = "r_cont"
  /\ UNCHANGED <<HOTKEY_PARTS, key_label, pressed_keys, MOUSE_BUTTON,
                 mouse_button_label, keyboard_enabled, continuous_listen,
                 paused, recording, audio_data, audio_stream, live, envKey,
                 envMouse, errors, workers, held, mheld, hpc, hstream, hchunks,
                 hpre, carg, cstream, apc, sess, delivered, captured, ctlOps,
                 lockVars, wrkVars>>

\* refresh_configuration, lines 199-201: _set_mouse_enabled.
RefreshMouseEnabled ==
  /\ cpc = "r_msen"
  /\ LET enabled == IF carg.settings = NoSettings THEN mouse_enabled
                    ELSE carg.settings.ms IN
       /\ mouse_enabled' = enabled
       /\ mouse_pressed' = IF enabled THEN mouse_pressed ELSE FALSE
  /\ cpc' = "r_cont"
  /\ UNCHANGED <<HOTKEY_PARTS, key_label, pressed_keys, MOUSE_BUTTON,
                 mouse_button_label, keyboard_enabled, continuous_listen,
                 paused, recording, audio_data, audio_stream, live, envKey,
                 envMouse, errors, workers, held, mheld, hpc, hstream, hchunks,
                 hpre, carg, cstream, apc, sess, delivered, captured, ctlOps,
                 lockVars, wrkVars>>

\* refresh_configuration, lines 203-205.  WKEY_CONTINUOUS_LISTEN is always in
\* os.environ (written by _set_continuous_listen, line 264, first at import)
\* and apply_settings never writes it: the value read back is the current
\* flag, whatever the settings say.
RefreshContinuous ==
  /\ cpc = "r_cont"
  /\ continuous_listen' = continuous_listen
  /\ cpc' = "c_branch"
  /\ UNCHANGED <<HOTKEY_PARTS, key_label, pressed_keys, MOUSE_BUTTON,
                 mouse_button_label, mouse_pressed, keyboard_enabled,
                 mouse_enabled, paused, recording, audio_data, audio_stream,
                 live, envKey, envMouse, errors, workers, held, mheld, hpc,
                 hstream, hchunks, hpre, carg, cstream, apc, sess, delivered,
                 captured, ctlOps, lockVars, wrkVars>>

\* _set_continuous_listen(enabled), lines 262-264, called on its own.
CallSetContinuous(v) ==
  /\ cpc = "idle"
  /\ ctlOps < MaxCtl
  /\ ctlOps' = ctlOps + 1
  /\ continuous_listen' = v
  /\ carg' = [NoArg EXCEPT !.op = "set_continuous", !.value = v]
  /\ cpc' = "c_branch"
  /\ errors' = {}
  /\ UNCHANGED <<HOTKEY_PARTS, key_label, pressed_keys, MOUSE_BUTTON,
                 mouse_button_label, mouse_pressed, keyboard_enabled,
                 mouse_enabled, paused, recording, audio_data, audio_stream,
                 live, envKey, envMouse, workers, held, mheld, hpc, hstream,
                 hchunks, hpre, cstream, apc, sess, delivered, captured,
                 lockVars, wrkVars>>

\* _set_continuous_listen, lines 265-268.
ContinuousBranch ==
  /\ cpc = "c_branch"
  /\ IF continuous_listen /\ ~paused
     THEN \E ok \in BOOLEAN :
            LET r == StartAudioCapture(ok) IN
            /\ audio_stream' = r.stream
            /\ live' = r.live
            /\ errors' = r.errors
            /\ cstream' = cstream
            /\ CtlDone("idle")
     ELSE IF ~continuous_listen /\ ~recording
     THEN LET r == StopAudioCapture(TRUE) IN
            /\ audio_stream' = r.stream
            /\ cstream' = r.taken
            /\ CtlDone(IF r.taken THEN "x_close" ELSE "idle")
            /\ UNCHANGED <<live, errors>>
     ELSE /\ CtlDone("idle")
          /\ UNCHANGED <<audio_stream, live, errors, cstream>>
  /\ UNCHANGED <<HOTKEY_PARTS, key_label, pressed_keys, MOUSE_BUTTON,
                 mouse_button_label, mouse_pressed, keyboard_enabled,
                 mouse_enabled, continuous_listen, paused, recording,
                 audio_data, envKey, envMouse, workers, held, mheld, hpc,
                 hstream, hchunks, hpre, apc, sess, delivered, captured,
                 ctlOps, lockVars, wrkVars>>

\* ---- scheduling ----

HookIdle(t) == hpc[t] = "idle"
CtlIdle == cpc = "idle"
AudioIdle == apc = "idle"

\* No handler is running.
Quiescent == (\A t \in Hooks : HookIdle(t)) /\ CtlIdle /\ AudioIdle

HookStep(t) ==
  \/ StartCheck(t) \/ StartCapture(t) \/ StartFlag(t) \/ StartReset(t)
  \/ StopCheck(t) \/ StopFlag(t) \/ StopCapture(t) \/ StopClose(t)
  \/ StopDrain(t) \/ StopSpawn(t)

CtlStep ==
  \/ PauseFlag \/ PauseCapture \/ PauseResume \/ CtlClose
  \/ RefreshMouse \/ RefreshKeyboardEnabled \/ RefreshMouseEnabled
  \/ RefreshContinuous \/ ContinuousBranch

\* Handlers run one at a time, each to its end: an event arrives or an
\* operation is called only while no handler is running.
SeqNext ==
  \/ \E k \in PhysKeys : \E c \in CharsOf(k) : Quiescent /\ KeyDown(k, c)
  \/ \E k \in PhysKeys : \E c \in CharsOf(k) : Quiescent /\ KeyUp(k, c)
  \/ \E b \in BOOLEAN : Quiescent /\ MouseClick(b)
  \/ \E b \in BOOLEAN : Quiescent /\ CallSetPaused(b)
  \/ \E b \in BOOLEAN : Quiescent /\ CallSetContinuous(b)
  \/ \E st \in SettingsChoices \cup {NoSettings} : Quiescent /\ CallRefresh(st)
  \/ Quiescent /\ AudioCheck
  \/ \E t \in Hooks : HookStep(t)
  \/ CtlStep
  \/ AudioAppend

Init == SvcInit /\ LockInit /\ WrkInit

Spec == Init /\ [][SeqNext]_vars

\* ---- the same settings applied again ----

\* The service runs from its start; the caller holds one settings object and
\* applies it through refresh_configuration, and again, with no input event
\* once it has been applied.
InitRefresh ==
  /\ SvcInit /\ LockInit
  /\ raw = <<>>
  /\ silent = "none"
  /\ backend = "groq"
  /\ LLM_CORRECT = ""
  /\ CHINESE_CONVERSION = ""
  /\ wpc = [w \in Workers |-> "none"]
  /\ wsnap = [w \in Workers |-> <<>>]
  /\ wtext = [w \in Workers |-> ""]
  /\ wcur = [w \in Workers |-> <<>>]
  /\ wlog = <<>>
  /\ history = <<>>
  /\ good = <<>>
  /\ ncalls = 0
  /\ clast = NoCall
  /\ chosen \in SettingsChoices
  /\ rpc = "loop"
  /\ mainpc = [p \in Pids |-> "lock"]
  /\ born = [i \in 1..MaxChunks |-> 0]

RefreshNext ==
  \/ \E k \in PhysKeys : \E c \in CharsOf(k) : ctlOps = 0 /\ Quiescent /\ KeyDown(k, c)
  \/ \E k \in PhysKeys : \E c \in CharsOf(k) : ctlOps = 0 /\ Quiescent /\ KeyUp(k, c)
  \/ \E b \in BOOLEAN : ctlOps = 0 /\ Quiescent /\ MouseClick(b)
  \/ ctlOps = 0 /\ Quiescent /\ AudioCheck
  \/ Quiescent /\ CallRefresh(chosen)
  \/ \E t \in Hooks : HookStep(t)
  \/ RefreshMouse \/ RefreshKeyboardEnabled \/ RefreshMouseEnabled
  \/ RefreshContinuous \/ ContinuousBranch
  \/ AudioAppend

RefreshSpec == InitRefresh /\ [][RefreshNext]_vars

\* ---- the import of wkey.wkey ----

\* The labels os.environ["WKEY"] or the stored settings give at start-up.
StartupLabels == {<<"ctrl_r">>, <<"ctrl_r", " d">>, <<>>, <<"bogus">>}

\* The module's globals when line 104 is reached: the labels and flags have
\* been read (lines 42-46), nothing has been applied yet.
InitImport ==
  /\ key_label \in StartupLabels
  /\ HOTKEY_PARTS = {}
  /\ envKey = [set |-> TRUE, val |-> key_label]
  /\ mouse_button_label = "middle"
  /\ MOUSE_BUTTON = "none"
  /\ envMouse = [set |-> TRUE, val |-> mouse_button_label]
  /\ keyboard_enabled \in BOOLEAN
  /\ mouse_enabled \in BOOLEAN
  /\ continuous_listen \in BOOLEAN
  /\ pressed_keys = {}
  /\ mouse_pressed = FALSE
  /\ paused = FALSE
  /\ recording = FALSE
  /\ audio_data = <<>>
  /\ audio_stream = FALSE
  /\ live = 0
  /\ errors = {}
  /\ workers = <<>>
  /\ held = {}
  /\ mheld = FALSE
  /\ hpc = [t \in Hooks |-> "idle"]
  /\ hstream = [t \in Hooks |-> FALSE]
  /\ hchunks = [t \in Hooks |-> <<>>]
  /\ hpre = [t \in Hooks |-> FALSE]
  /\ cpc = "import"
  /\ carg = NoArg
  /\ cstream = FALSE
  /\ apc = "idle"
  /\ sess = 0
  /\ delivered = 0
  /\ captured = <<>>
  /\ ctlOps = 0
  /\ LockInit
  /\ WrkInit

\* The module body from line 104 on.  _set_record_key(key_label) runs at line
\* 104; for a label _parse_hotkey rejects, its except branch calls
\* _report_error, a name the module binds only at line 172: the NameError
\* ends the import.  Otherwise the mouse button and the flags are applied
\* (lines 144, 163, 164) and _set_continuous_listen (line 286) opens the
\* microphone when continuous listening is on.
ImportModule(ok) ==
  /\ cpc = "import"
  /\ IF key_label # <<>> /\ ~ParseHotkey(key_label).ok
     THEN /\ ~ok
          /\ cpc' = "import_failed"
          /\ UNCHANGED <<HOTKEY_PARTS, pressed_keys, key_label, envKey,
                         MOUSE_BUTTON, audio_stream, live, errors>>
     ELSE LET r == SetRecordKey(key_label, envKey) IN
          /\ HOTKEY_PARTS' = r.parts
          /\ pressed_keys' = r.pressed
          /\ key_label' = r.label
          /\ envKey' = r.env
          /\ MOUSE_BUTTON' = ParseMouseButton(mouse_button_label).button
          /\ audio_stream' = (continuous_listen /\ ok)
          /\ live' = IF continuous_listen /\ ok THEN 1 ELSE 0
          /\ errors' = IF continuous_listen /\ ~ok THEN {"capture"} ELSE {}
          /\ cpc' = "idle"
  /\ UNCHANGED <<mouse_button_label, mouse_pressed, keyboard_enabled,
                 mouse_enabled, continuous_listen, paused, recording,
                 audio_data, envMouse, workers, held, mheld, hpc, hstream,
                 hchunks, hpre, carg, cstream, apc, sess, delivered, captured,
                 ctlOps, lockVars, wrkVars>>

\* The import, then the service under the sequential scheduling.
ImportNext ==
  \/ \E ok \in BOOLEAN : ImportModule(ok)
  \/ SeqNext

ImportSpec == InitImport /\ [][ImportNext]_vars


\* The threads of the service run as the interpreter schedules them: the
\* keyboard listener, the mouse listener, the thread calling the control
\* operations and the audio callback each take their steps in any order.
\* The keys pressed are those of the hotkey; the control operations are
\* set_paused and _set_continuous_listen.
ConcNext ==
  \/ \E k \in HOTKEY_PARTS \cap PhysKeys : KeyDown(k, k)
  \/ \E k \in HOTKEY_PARTS \cap PhysKeys : KeyUp(k, k)
  \/ \E b \in BOOLEAN : MouseClick(b)
  \/ \E b \in BOOLEAN : CallSetPaused(b)
  \/ \E b \in BOOLEAN : CallSetContinuous(b)
  \/ AudioCheck
  \/ \E t \in Hooks : HookStep(t)
  \/ PauseFlag \/ PauseCapture \/ PauseResume \/ CtlClose \/ ContinuousBranch
  \/ AudioAppend

\* The service with the default hotkey and both triggers enabled.
InitConc ==
  /\ Init
  /\ key_label = <<"ctrl_r">>
  /\ keyboard_enabled /\ mouse_enabled

ConcSpec == InitConc /\ [][ConcNext]_vars

\* ---- pausing and resuming, nothing else being reconfigured ----

\* Keys and the button go down and up, the service is paused and resumed;
\* each handler runs to its end before the next event or call.
PauseNext ==
  \/ \E k \in PhysKeys : \E c \in CharsOf(k) : Quiescent /\ KeyDown(k, c)
  \/ \E k \in PhysKeys : \E c \in CharsOf(k) : Quiescent /\ KeyUp(k, c)
  \/ \E b \in BOOLEAN : Quiescent /\ MouseClick(b)
  \/ \E b \in BOOLEAN : Quiescent /\ CallSetPaused(b)
  \/ Quiescent /\ AudioCheck
  \/ \E t \in Hooks : HookStep(t)
  \/ PauseFlag \/ PauseCapture \/ PauseResume \/ CtlClose
  \/ AudioAppend

PauseSpec == InitConc /\ [][PauseNext]_vars

\* ---- the audio callback against the sessions of one hook ----

\* _audio_callback is called with a block (line 214) and reads recording
\* (line 218): as AudioCheck, with the session of the moment noted.
AudioCallbackEnter ==
  /\ apc = "idle"
  /\ live > 0
  /\ delivered < MaxChunks
  /\ delivered' = delivered + 1
  /\ apc' = IF recording THEN "append" ELSE "idle"
  /\ born' = [born EXCEPT ![delivered + 1] = IF recording THEN sess ELSE 0]
  /\ UNCHANGED <<HOTKEY_PARTS, key_label, pressed_keys, MOUSE_BUTTON,
                 mouse_button_label, mouse_pressed, keyboard_enabled,
                 mouse_enabled, continuous_listen, paused, recording,
                 audio_data, audio_stream, live, envKey, envMouse, errors,
                 workers, held, mheld, hpc, hstream, hchunks, hpre, cpc, carg,
                 cstream, sess, captured, ctlOps, lockVars, raw, silent,
                 backend, wpc, wsnap, wtext, wlog, LLM_CORRECT,
                 CHINESE_CONVERSION, wcur, history, good, ncalls, clast,
                 chosen, rpc, mainpc>>

\* The hotkey goes down and up; the keyboard listener's handlers and the
\* audio callback take their steps in any order.
CaptureNext ==
  \/ \E k \in HOTKEY_PARTS \cap PhysKeys : KeyDown(k, k)
  \/ \E k \in HOTKEY_PARTS \cap PhysKeys : KeyUp(k, k)
  \/ AudioCallbackEnter
  \/ \E t \in Hooks : HookStep(t)
  \/ AudioAppend

CaptureSpec == InitConc /\ [][CaptureNext]_vars

\* ---- run() is told to stop ----

\* What a step of run() leaves alone.
RunFrame ==
  UNCHANGED <<HOTKEY_PARTS, key_label, pressed_keys, MOUSE_BUTTON,
              mouse_button_label, mouse_pressed, keyboard_enabled,
              mouse_enabled, continuous_listen, paused, recording, audio_data,
              envKey, envMouse, errors, workers, held, mheld, hpc, hstream,
              hchunks, hpre, cpc, carg, cstream, apc, sess, delivered,
              captured, ctlOps, lockVars, raw, silent, backend, wpc, wsnap,
              wtext, wlog, LLM_CORRECT, CHINESE_CONVERSION, wcur, history,
              good, ncalls, clast, chosen, mainpc, born>>

\* stop_event.set(), by stop_service (line 525) or the SIGINT handler.
StopSignal ==
  /\ rpc = "loop"
  /\ rpc' = "signalled"
  /\ UNCHANGED <<audio_stream, live>>
  /\ RunFrame

\* The loop finds the event set (lines 473-475): listener.stop(), break, and
\* in the finally clause listener.stop() again (lines 482-484).
RunPoll ==
  /\ rpc = "signalled"
  /\ rpc' = "kb_join"
  /\ UNCHANGED <<audio_stream, live>>
  /\ RunFrame

\* listener.join() (line 485) returns once the keyboard listener thread has
\* left its handler.
RunJoinKeyboard ==
  /\ rpc = "kb_join"
  /\ hpc["kb"] = "idle"
  /\ rpc' = "audio_take"
  /\ UNCHANGED <<audio_stream, live>>
  /\ RunFrame

\* _stop_audio_capture(force=True) (line 486), lines 245-249.
RunStopAudio ==
  /\ rpc = "audio_take"
  /\ LET r == StopAudioCapture(TRUE) IN
       /\ audio_stream' = r.stream
       /\ rpc' = IF r.taken THEN "audio_close" ELSE "ms_join"
  /\ UNCHANGED live
  /\ RunFrame

\* _stop_audio_capture, lines 250-258: the stream taken is stopped and closed.
RunCloseAudio ==
  /\ rpc = "audio_close"
  /\ apc = "idle"
  /\ live' = live - 1
  /\ rpc' = "ms_join"
  /\ UNCHANGED audio_stream
  /\ RunFrame

\* mouse_listener.stop(); mouse_listener.join() (lines 487-489), after which
\* run() returns.
RunJoinMouse ==
  /\ rpc = "ms_join"
  /\ hpc["ms"] = "idle"
  /\ rpc' = "returned"
  /\ UNCHANGED <<audio_stream, live>>
  /\ RunFrame

\* The listeners deliver events until they are stopped, the handlers and the
\* audio callback run as the interpreter schedules them, and run() is told
\* to stop at some point.
StopNext ==
  \/ \E k \in HOTKEY_PARTS \cap PhysKeys : rpc \in {"loop", "signalled"} /\ KeyDown(k, k)
  \/ \E k \in HOTKEY_PARTS \cap PhysKeys : rpc \in {"loop", "signalled"} /\ KeyUp(k, k)
  \/ \E b \in BOOLEAN : rpc # "returned" /\ MouseClick(b)
  \/ AudioCheck
  \/ \E t \in Hooks : HookStep(t)
  \/ AudioAppend
  \/ StopSignal \/ RunPoll \/ RunJoinKeyboard \/ RunStopAudio \/ RunCloseAudio
  \/ RunJoinMouse

StopRunSpec == InitConc /\ [][StopNext]_vars

\* The processes of the machine take the steps of the lock protocol in any
\* order; the service of each is left out of the picture.
LockNext ==
  \E p \in Pids :
    \/ SpawnWkey(p) /\ UNCHANGED <<svcVars, wrkVars>>
    \/ SpawnOther(p) /\ UNCHANGED <<svcVars, wrkVars>>
    \/ Die(p) /\ UNCHANGED <<svcVars, wrkVars>>
    \/ Reap(p) /\ UNCHANGED <<svcVars, wrkVars>>
    \/ Tick(p) /\ UNCHANGED <<svcVars, wrkVars>>
    \/ AcqOpen(p) /\ UNCHANGED <<svcVars, wrkVars>>
    \/ AcqRead(p) /\ UNCHANGED <<svcVars, wrkVars>>
    \/ AcqCheck(p) /\ UNCHANGED <<svcVars, wrkVars>>
    \/ AcqTerminate(p) /\ UNCHANGED <<svcVars, wrkVars>>
    \/ AcqWait(p) /\ UNCHANGED <<svcVars, wrkVars>>
    \/ AcqCleanup(p) /\ UNCHANGED <<svcVars, wrkVars>>
    \/ AcqWrite(p) /\ UNCHANGED <<svcVars, wrkVars>>
    \/ RelCall(p) /\ UNCHANGED <<svcVars, wrkVars>>
    \/ RelRead(p) /\ UNCHANGED <<svcVars, wrkVars>>
    \/ RelUnlink(p) /\ UNCHANGED <<svcVars, wrkVars>>

\* The step acquire() is about to take in process p.
AcquireStep(p) ==
  /\ \/ AcqOpen(p) \/ AcqRead(p) \/ AcqCheck(p) \/ AcqTerminate(p)
     \/ AcqWait(p) \/ AcqCleanup(p) \/ AcqWrite(p)
  /\ UNCHANGED <<svcVars, wrkVars>>

\* Fair scheduling: a process inside acquire() goes on taking its steps, and
\* the clock that _wait_for_exit reads goes on.
LockFairness ==
  \A p \in Pids :
    /\ WF_vars(AcquireStep(p))
    /\ WF_vars(Tick(p) /\ UNCHANGED <<svcVars, wrkVars>>)

\* The defaults of the service: hotkey ctrl_r, no mouse button, both triggers
\* enabled, continuous listening on with a working microphone.
SvcDefault ==
  /\ SvcInit
  /\ key_label = <<"ctrl_r">>
  /\ mouse_button_label = "middle"
  /\ keyboard_enabled /\ mouse_enabled /\ continuous_listen /\ audio_stream

InitLock == LockInit /\ SvcDefault /\ WrkInit

LockSpec == InitLock /\ [][LockNext]_vars

\* The competitors for the liveness check: processes that come with one of
\* two boot signatures, race through acquire(), release, die or linger as
\* zombies.
LockLiveNext ==
  \E p \in Pids :
    \/ SpawnWkey(p) /\ boot'[p] \in {5, 8} /\ UNCHANGED <<svcVars, wrkVars>>
    \/ SpawnOther(p) /\ UNCHANGED <<svcVars, wrkVars>>
    \/ Die(p) /\ UNCHANGED <<svcVars, wrkVars>>
    \/ Reap(p) /\ UNCHANGED <<svcVars, wrkVars>>
    \/ Tick(p) /\ UNCHANGED <<svcVars, wrkVars>>
    \/ AcqOpen(p) /\ UNCHANGED <<svcVars, wrkVars>>
    \/ AcqRead(p) /\ UNCHANGED <<svcVars, wrkVars>>
    \/ AcqCheck(p) /\ UNCHANGED <<svcVars, wrkVars>>
    \/ AcqTerminate(p) /\ UNCHANGED <<svcVars, wrkVars>>
    \/ AcqWait(p) /\ UNCHANGED <<svcVars, wrkVars>>
    \/ AcqCleanup(p) /\ UNCHANGED <<svcVars, wrkVars>>
    \/ AcqWrite(p) /\ UNCHANGED <<svcVars, wrkVars>>
    \/ RelCall(p) /\ UNCHANGED <<svcVars, wrkVars>>
    \/ RelRead(p) /\ UNCHANGED <<svcVars, wrkVars>>
    \/ RelUnlink(p) /\ UNCHANGED <<svcVars, wrkVars>>

LockLiveSpec == InitLock /\ [][LockLiveNext]_vars /\ LockFairness

(***************************************************************************)
(* The tray entry point (wkey/tray_app.py, main): each wkey process        *)
(* acquires the lock, then builds the TrayController, whose constructor    *)
(* starts the service.                                                     *)
(***************************************************************************)

\* Everything main() leaves alone apart from the lock.
TrayFrame ==
  UNCHANGED <<svcVars, raw, silent, backend, wpc, wsnap, wtext, wlog,
              LLM_CORRECT, CHINESE_CONVERSION, wcur, history, good, ncalls,
              clast, chosen, rpc, born>>

\* A process that is started or dies begins main() afresh.
MainReset(p) == mainpc' = [mainpc EXCEPT ![p] = "lock"]

\* A main() that builds the controller wherever acquire() has stopped.
MainStartServiceUnguarded(p) ==
  /\ pstat[p] = "running"
  /\ lpc[p] \in {"held", "failed"}
  /\ mainpc[p] = "lock"
  /\ mainpc' = [mainpc EXCEPT ![p] = "service"]
  /\ UNCHANGED lockVars

\* main(), lines 569-572, and TrayController.__init__, line 430: acquire()
\* has returned, the controller is built and start_service() starts the
\* thread that runs run(), which installs the listeners.
MainStartService(p) ==
  /\ pstat[p] = "running"
  /\ lpc[p] = "held"
  /\ mainpc[p] = "lock"
  /\ mainpc' = [mainpc EXCEPT ![p] = "service"]
  /\ UNCHANGED lockVars

\* main(), lines 565-567: acquire() raised SingleInstanceError; the message
\* is printed and main returns 0.
MainReturn0(p) ==
  /\ pstat[p] = "running"
  /\ lpc[p] = "failed"
  /\ mainpc[p] = "lock"
  /\ mainpc' = [mainpc EXCEPT ![p] = "exit0"]
  /\ UNCHANGED lockVars

\* exit_app(), lines 498-510: once only (self.exiting), the service is
\* stopped and then the lock is released.
ExitApp(p) ==
  /\ mainpc[p] = "service"
  /\ mainpc' = [mainpc EXCEPT ![p] = "exiting"]
  /\ RelCall(p)

TrayNext ==
  \E p \in Pids :
    \/ SpawnWkey(p) /\ MainReset(p) /\ TrayFrame
    \/ SpawnOther(p) /\ MainReset(p) /\ TrayFrame
    \/ Die(p) /\ MainReset(p) /\ TrayFrame
    \/ Reap(p) /\ UNCHANGED <<svcVars, wrkVars>>
    \/ Tick(p) /\ UNCHANGED <<svcVars, wrkVars>>
    \/ AcqOpen(p) /\ UNCHANGED <<svcVars, wrkVars>>
    \/ AcqRead(p) /\ UNCHANGED <<svcVars, wrkVars>>
    \/ AcqCheck(p) /\ UNCHANGED <<svcVars, wrkVars>>
    \/ AcqTerminate(p) /\ UNCHANGED <<svcVars, wrkVars>>
    \/ AcqWait(p) /\ UNCHANGED <<svcVars, wrkVars>>
    \/ AcqCleanup(p) /\ UNCHANGED <<svcVars, wrkVars>>
    \/ AcqWrite(p) /\ UNCHANGED <<svcVars, wrkVars>>
    \/ MainStartService(p) /\ TrayFrame
    \/ MainReturn0(p) /\ TrayFrame
    \/ ExitApp(p) /\ TrayFrame
    \/ RelRead(p) /\ UNCHANGED <<svcVars, wrkVars>>
    \/ RelUnlink(p) /\ UNCHANGED <<svcVars, wrkVars>>

TraySpec == InitLock /\ [][TrayNext]_vars

(***************************************************************************)
(* The workers.  A block of audio is a run of n equal 16-bit samples of    *)
(* value amp; a buffer is the concatenation (b''.join) of its blocks.      *)
(***************************************************************************)

silence_threshold == 300
min_samples == 1600

\* Sample values around the threshold and at the ends of the int16 range;
\* block lengths around min_samples and its half.
SampleValues == {-32768, -300, -299, 0, 299, 300, 32767}
BlockLengths == {1, 799, 800, 1599, 1600, 1601}
Blocks == [n : BlockLengths, amp : SampleValues]

SeqsUpTo(S, k) == UNION {[1..i -> S] : i \in 0..k}

\* The buffers _is_silence is applied to.
Buffers == SeqsUpTo(Blocks, MaxChunks)

RECURSIVE NSamples(_)
\* len(raw_audio) // 2.
NSamples(buf) == IF buf = <<>> THEN 0 ELSE Head(buf).n + NSamples(Tail(buf))

RECURSIVE Peak(_)
\* max(abs(sample) for sample in samples).
Peak(buf) ==
  IF buf = <<>> THEN 0
  ELSE LET a == Abs(Head(buf).amp)
           r == Peak(Tail(buf)) IN
       IF a > r THEN a ELSE r

\* A check that compares the peak with the threshold whatever the length.
IsSilencePeakOnly(buf) == Peak(buf) < silence_threshold

\* A check that takes a peak at the threshold for silence.
IsSilenceInclusive(buf) ==
  IF 2 * NSamples(buf) = 0 THEN TRUE
  ELSE IF 2 * NSamples(buf) < min_samples * 2 THEN TRUE
  ELSE Peak(buf) <= silence_threshold

\* _is_silence(raw_audio) with the default threshold and minimum length.
IsSilence(buf) ==
  IF 2 * NSamples(buf) = 0 THEN TRUE
  ELSE IF 2 * NSamples(buf) < min_samples * 2 THEN TRUE
  ELSE Peak(buf) < silence_threshold

\* _is_silence is called on the buffer and returns.
ApplyIsSilence ==
  /\ silent = "none"
  /\ silent' = IF IsSilence(raw) THEN "yes" ELSE "no"
  /\ UNCHANGED <<raw, backend, wpc, wsnap, wtext, wlog, LLM_CORRECT,
                 CHINESE_CONVERSION, wcur, history, good, ncalls, clast,
                 chosen, rpc, mainpc, born, svcVars, lockVars>>

InitSilence ==
  /\ LockInit /\ SvcDefault
  /\ raw \in Buffers
  /\ silent = "none"
  /\ backend = "groq"
  /\ LLM_CORRECT = ""
  /\ CHINESE_CONVERSION = ""
  /\ WrkIdle

SilenceNext == ApplyIsSilence

SilenceSpec == InitSilence /\ [][SilenceNext]_vars

\* ---- the worker thread of one utterance ----

\* The backends whisper/__init__.py can load.
Backends == {"groq", "openai", "whisperx", "insanely-whisper"}

\* What the provider does with one call: it answers with text, answers with
\* no text, fails on the first request or fails on the second request (the
\* two HTTP backends make two requests for one transcription).
ProviderOutcomes == {"ok", "ok_empty", "fail_first", "fail_second"}

ProviderFailed(o) == o \in {"fail_first", "fail_second"}

\* apply_whisper(audio_buffer, 'transcribe') of backend b.  groq and openai
\* let the client's exception through; whisperx catches RequestException and
\* returns ""; insanely-whisper returns the text "Error during file upload:
\* ..." when the upload fails and "" when the transcription request fails.
ApplyWhisper(b, o) ==
  CASE o = "ok" -> [raised |-> FALSE, text |-> "text"]
    [] o = "ok_empty" -> [raised |-> FALSE, text |-> ""]
    [] ProviderFailed(o) /\ b \in {"groq", "openai"} ->
         [raised |-> TRUE, text |-> ""]
    [] ProviderFailed(o) /\ b = "whisperx" -> [raised |-> FALSE, text |-> ""]
    [] o = "fail_first" /\ b = "insanely-whisper" ->
         [raised |-> FALSE, text |-> "Error during file upload"]
    [] o = "fail_second" /\ b = "insanely-whisper" ->
         [raised |-> FALSE, text |-> ""]

\* The snapshots _maybe_stop_recording hands to a worker: nothing, a long
\* quiet one, a short loud one, a long loud one, two short blocks of which
\* one is loud.
WorkerSnapshots ==
  { <<>>,
    <<[n |-> 1601, amp |-> 299]>>,
    <<[n |-> 1599, amp |-> 32767]>>,
    <<[n |-> 1600, amp |-> 300]>>,
    <<[n |-> 800, amp |-> -300], [n |-> 800, amp |-> 0]>> }

Log(w, e) == [w |-> w, ev |-> e]

LogOf(w) == {wlog[i].ev : i \in {j \in DOMAIN wlog : wlog[j].w = w}}

\* ---- the text corrector (wkey/llm_correction.py) ----

maxlen == 10

\* A transcript of white space only.
BlankText == <<" ">>
IsBlank(t) == t = BlankText

\* What the corrector's HTTP call does: it answers with a corrected text; it
\* raises a requests.RequestException (no connection, timeout, error status);
\* its reply lacks "choices"/"message"/"content" (KeyError, IndexError); or
\* it fails another way (a null content gives AttributeError on .strip(), a
\* reply of another shape gives TypeError).
CorrectorOutcomes == {"ok", "request_fail", "parse_fail", "other_fail"}

\* The text the corrector's service gives back for t.
Corrected(t) == Append(t, "corrected")

\* A deque that never evicts.
DequeAppendUnbounded(h, x) == Append(h, x)

\* deque(maxlen=10).append(x)
DequeAppend(h, x) == IF Len(h) < maxlen THEN Append(h, x) ELSE Append(Tail(h), x)

\* corrector(transcript) with the deque hist: what it returns or that it
\* raised, and the deque afterwards.
Corrector(hist, t, o) ==
  IF IsBlank(t) THEN [raised |-> FALSE, text |-> t, hist |-> hist]
  ELSE IF o = "ok"
       THEN [raised |-> FALSE, text |-> Corrected(t),
             hist |-> DequeAppend(hist, Corrected(t))]
  ELSE IF o \in {"request_fail", "parse_fail"}
       THEN [raised |-> FALSE, text |-> t, hist |-> hist]
  ELSE [raised |-> TRUE, text |-> t, hist |-> hist]

\* One call of llm_corrector, with its bookkeeping.
CorrectorStep(t, o) ==
  LET r == Corrector(history, t, o) IN
  /\ history' = r.hist
  /\ good' = IF ~IsBlank(t) /\ o = "ok" THEN Append(good, Corrected(t)) ELSE good
  /\ ncalls' = ncalls + 1
  /\ clast' = [t |-> t, o |-> IF IsBlank(t) THEN "blank" ELSE o,
               raised |-> r.raised, text |-> r.text]

CorrFrame == UNCHANGED <<history, good, ncalls, clast>>

\* A test that takes every value _coerce_bool takes for true.
LlmCorrectEnabledAsCoerceBool(v) == v \in {"true", "1", "yes", "on"}

\* os.getenv("LLM_CORRECT", "false").lower() in ("true", "1", "yes")
LlmCorrectEnabled(v) == v \in {"true", "1", "yes"}

\* convert_chinese(transcript, code) and process_transcript(transcript) of
\* wkey/utils.py: pure text transforms, kept uninterpreted.
convert_chinese(t, code) == Append(t, code)
process_transcript(t) == Append(t, "processed")

\* ---- the worker thread of one utterance ----

WrkFrame ==
  UNCHANGED <<raw, silent, backend, LLM_CORRECT, CHINESE_CONVERSION, chosen,
              rpc, mainpc, born, svcVars, lockVars>>

\* threading.Thread(target=worker, args=(audio_chunks,)).start(): the worker
\* of the next utterance begins with its snapshot.
WorkerStart(w, snap) ==
  /\ wpc[w] = "none"
  /\ \A v \in Workers : v < w => wpc[v] # "none"
  /\ wpc' = [wpc EXCEPT ![w] = "empty_chk"]
  /\ wsnap' = [wsnap EXCEPT ![w] = snap]
  /\ UNCHANGED <<wtext, wcur, wlog>>
  /\ CorrFrame
  /\ WrkFrame

\* if not audio_chunks: print(...); return None
RecEmptyCheck(w) ==
  /\ wpc[w] = "empty_chk"
  /\ wpc' = [wpc EXCEPT ![w] = IF wsnap[w] = <<>> THEN "done" ELSE "silence_chk"]
  /\ UNCHANGED <<wsnap, wtext, wcur, wlog>>
  /\ CorrFrame
  /\ WrkFrame

\* A worker that sends every non-empty snapshot to the provider.
RecSilenceCheckSkipped(w) ==
  /\ wpc[w] = "silence_chk"
  /\ wpc' = [wpc EXCEPT ![w] = "transcribe"]
  /\ UNCHANGED <<wsnap, wtext, wcur, wlog>>
  /\ CorrFrame
  /\ WrkFrame

\* if _is_silence(b''.join(audio_chunks)): print(...); return None
RecSilenceCheck(w) ==
  /\ wpc[w] = "silence_chk"
  /\ wpc' = [wpc EXCEPT ![w] = IF IsSilence(wsnap[w]) THEN "done" ELSE "transcribe"]
  /\ UNCHANGED <<wsnap, wtext, wcur, wlog>>
  /\ CorrFrame
  /\ WrkFrame

\* The WAV is written and apply_whisper is called inside try/except
\* Exception; the worker goes on to type only a non-empty transcript.
RecTranscribe(w, o) ==
  /\ wpc[w] = "transcribe"
  /\ LET r == ApplyWhisper(backend, o)
         l1 == Append(wlog, Log(w, "call"))
         l2 == IF ProviderFailed(o) THEN Append(l1, Log(w, "fail")) ELSE l1
         l3 == IF r.raised THEN Append(l2, Log(w, "error")) ELSE l2
         go == ~r.raised /\ r.text # "" IN
     /\ wlog' = l3
     /\ wtext' = [wtext EXCEPT ![w] = IF r.raised THEN "" ELSE r.text]
     /\ wcur' = [wcur EXCEPT ![w] = IF go THEN <<r.text>> ELSE <<>>]
     /\ wpc' = [wpc EXCEPT ![w] = IF go THEN "process" ELSE "done"]
  /\ UNCHANGED wsnap
  /\ CorrFrame
  /\ WrkFrame

\* Stage 1 of _process_and_type_transcript (lines 360-365): with LLM_CORRECT
\* enabled the transcript is what llm_corrector returns; an exception the
\* corrector does not catch leaves the worker, which has no try of its own.
LlmCorrect(w, o) ==
  /\ wpc[w] = "process"
  /\ IF LlmCorrectEnabled(LLM_CORRECT)
     THEN LET r == Corrector(history, wcur[w], o)
              l1 == Append(wlog, Log(w, "corr_call"))
              l2 == IF o # "ok" THEN Append(l1, Log(w, "corr_fail")) ELSE l1 IN
          /\ CorrectorStep(wcur[w], o)
          /\ wlog' = l2
          /\ wcur' = [wcur EXCEPT ![w] = r.text]
          /\ wpc' = [wpc EXCEPT ![w] = IF r.raised THEN "crashed" ELSE "convert"]
     ELSE /\ o = "ok"
          /\ wpc' = [wpc EXCEPT ![w] = "convert"]
          /\ UNCHANGED <<wlog, wcur>>
          /\ CorrFrame
  /\ UNCHANGED <<wsnap, wtext>>
  /\ WrkFrame

\* Stage 2 (lines 367-368): convert_chinese when a code is configured.
Convert(w) ==
  /\ wpc[w] = "convert"
  /\ wcur' = [wcur EXCEPT ![w] =
                IF CHINESE_CONVERSION # ""
                THEN convert_chinese(wcur[w], CHINESE_CONVERSION)
                ELSE wcur[w]]
  /\ wpc' = [wpc EXCEPT ![w] = "normalize"]
  /\ UNCHANGED <<wsnap, wtext, wlog>>
  /\ CorrFrame
  /\ WrkFrame

\* Stage 3 (line 370): process_transcript.
Normalize(w) ==
  /\ wpc[w] = "normalize"
  /\ wcur' = [wcur EXCEPT ![w] = process_transcript(wcur[w])]
  /\ wpc' = [wpc EXCEPT ![w] = "type"]
  /\ UNCHANGED <<wsnap, wtext, wlog>>
  /\ CorrFrame
  /\ WrkFrame

\* Stage 4 (line 372): keyboard_controller.type(processed_transcript); an
\* exception of the controller leaves the worker.
TypeText(w, ok) ==
  /\ wpc[w] = "type"
  /\ wpc' = [wpc EXCEPT ![w] = IF ok THEN "done" ELSE "crashed"]
  /\ wlog' = IF ok THEN Append(wlog, Log(w, "typed")) ELSE wlog
  /\ UNCHANGED <<wsnap, wtext, wcur>>
  /\ CorrFrame
  /\ WrkFrame

WorkerNext ==
  \/ \E w \in Workers, snap \in WorkerSnapshots : WorkerStart(w, snap)
  \/ \E w \in Workers : RecEmptyCheck(w)
  \/ \E w \in Workers : RecSilenceCheck(w)
  \/ \E w \in Workers, o \in ProviderOutcomes : RecTranscribe(w, o)
  \/ \E w \in Workers, o \in CorrectorOutcomes : LlmCorrect(w, o)
  \/ \E w \in Workers : Convert(w)
  \/ \E w \in Workers : Normalize(w)
  \/ \E w \in Workers, ok \in BOOLEAN : TypeText(w, ok)

\* The values LLM_CORRECT and CHINESE_CONVERSION are given.
LlmCorrectValues == {"", "true", "on"}
ConversionCodes == {"", "s2t"}

InitWorker ==
  /\ LockInit /\ SvcDefault
  /\ raw = <<>>
  /\ silent = "none"
  /\ backend \in Backends
  /\ LLM_CORRECT \in LlmCorrectValues
  /\ CHINESE_CONVERSION \in ConversionCodes
  /\ WrkIdle

WorkerSpec == InitWorker /\ [][WorkerNext]_vars

\* ---- typing, one keystroke at a time ----

\* The keystrokes worker w has injected so far.
Typed(w) == Cardinality({i \in DOMAIN wlog : wlog[i].w = w /\ wlog[i].ev = "key"})

\* keyboard_controller.type(processed_transcript), line 372, one element of
\* the text at a time: the controller presses and releases a key for each,
\* and the worker holds no lock while it does.
TypeChar(w) ==
  /\ wpc[w] = "type"
  /\ Typed(w) < Len(wcur[w])
  /\ wlog' = Append(wlog, Log(w, "key"))
  /\ wpc' = [wpc EXCEPT ![w] = IF Typed(w) + 1 = Len(wcur[w]) THEN "done" ELSE @]
  /\ UNCHANGED <<wsnap, wtext, wcur>>
  /\ CorrFrame
  /\ WrkFrame

TypeNext ==
  \/ \E w \in Workers, snap \in WorkerSnapshots : WorkerStart(w, snap)
  \/ \E w \in Workers : RecEmptyCheck(w)
  \/ \E w \in Workers : RecSilenceCheck(w)
  \/ \E w \in Workers, o \in ProviderOutcomes : RecTranscribe(w, o)
  \/ \E w \in Workers, o \in CorrectorOutcomes : LlmCorrect(w, o)
  \/ \E w \in Workers : Convert(w)
  \/ \E w \in Workers : Normalize(w)
  \/ \E w \in Workers : TypeChar(w)

TypeSpec == InitWorker /\ [][TypeNext]_vars

\* ---- sessions and their workers ----

\* The thread _maybe_stop_recording started for the w-th utterance (line 438)
\* begins worker(chunks): its snapshot is empty exactly when the chunks the
\* hook copied are; what the blocks hold is not the service's to choose.
WorkerRun(w) ==
  /\ w \in DOMAIN workers
  /\ \E snap \in WorkerSnapshots :
       /\ (snap = <<>>) <=> (workers[w].chunks = <<>>)
       /\ WorkerStart(w, snap)

\* The hooks, the audio callback and the worker threads of one service; an
\* event arrives while no handler is running, the workers run at any time.
SessionNext ==
  \/ \E k \in HOTKEY_PARTS \cap PhysKeys : Quiescent /\ KeyDown(k, k)
  \/ \E k \in HOTKEY_PARTS \cap PhysKeys : Quiescent /\ KeyUp(k, k)
  \/ \E b \in BOOLEAN : Quiescent /\ MouseClick(b)
  \/ Quiescent /\ AudioCheck
  \/ \E t \in Hooks : HookStep(t)
  \/ AudioAppend
  \/ \E w \in Workers : WorkerRun(w)
  \/ \E w \in Workers : RecEmptyCheck(w)
  \/ \E w \in Workers : RecSilenceCheck(w)
  \/ \E w \in Workers, o \in ProviderOutcomes : RecTranscribe(w, o)
  \/ \E w \in Workers, o \in CorrectorOutcomes : LlmCorrect(w, o)
  \/ \E w \in Workers : Convert(w)
  \/ \E w \in Workers : Normalize(w)
  \/ \E w \in Workers, ok \in BOOLEAN : TypeText(w, ok)

SessionSpec == InitConc /\ [][SessionNext]_vars

\* ---- the corrector called many times ----

\* llm_corrector(transcript) is called with the next transcript, or with a
\* blank one, and the service answers or fails.
CorrectorCall(blank, o) ==
  /\ ncalls < MaxCalls
  /\ CorrectorStep(IF blank THEN BlankText ELSE <<ToString(ncalls + 1)>>, o)
  /\ UNCHANGED <<raw, silent, backend, wpc, wsnap, wtext, wlog, LLM_CORRECT,
                 CHINESE_CONVERSION, wcur, chosen, rpc, mainpc, born, svcVars,
                 lockVars>>

CorrectorNext ==
  \/ \E o \in CorrectorOutcomes : CorrectorCall(FALSE, o)
  \/ CorrectorCall(TRUE, "ok")

InitCorrector == LockInit /\ SvcDefault /\ WrkInit

CorrectorSpec == InitCorrector /\ [][CorrectorNext]_vars

(***************************************************************************)
(* Claims about the lock, checked under LockSpec.                          *)
(***************************************************************************)

\* A live process whose acquire() returned and which has not called release().
Holds(p) == pstat[p] = "running" /\ lpc[p] = "held"

\* C1: at most one live process at a time holds the lock: no reachable state
\* has two live processes whose acquire() both returned successfully and
\* neither of which has released.
C1_MutualExclusion == Cardinality({p \in Pids : Holds(p)}) <= 1

\* The recorded pid names a process in the process table whose command line
\* is equivalent to the recorded one (a zombie is not counted against C2).
LiveAndEquivalent(rec) ==
  /\ rec # NoRec
  /\ pstat[rec.pid] # "none"
  /\ pstat[rec.pid] = "running" => CommandsEquivalent(rec.cmd, ActualCmd(inv[rec.pid]))

\* C2: if the recorded PID names no running process, or names a running
\* process whose actual command line is not equivalent to the recorded one,
\* acquire() takes the stale branch (removes the record) and never goes on to
\* request termination of that PID.
C2_NoTerminationOfUnverified ==
  [][\A p \in Pids :
       (lpc[p] = "acq_check" /\ lpc'[p] = "acq_term") => LiveAndEquivalent(owner[p])]_lockVars

\* C3 as stated: whenever acquire() examines a record for a live process whose
\* command line matches the recorded one, it goes on to request termination.
C3_Original ==
  [][\A p \in Pids :
       (/\ lpc[p] = "acq_check" /\ lpc'[p] # "acq_check" /\ pstat'[p] = "running"
        /\ owner[p] # NoRec
        /\ pstat[owner[p].pid] = "running"
        /\ CommandsEquivalent(owner[p].cmd, ActualCmd(inv[owner[p].pid])))
       => lpc'[p] = "acq_term"]_lockVars

\* Positions of acquire() after _wait_for_exit has returned, and after it.
PastWait(p) ==
  lpc[p] \in {"acq_cleanup", "acq_open", "acq_read", "acq_check", "acq_write",
              "held", "rel_read", "rel_unlink", "released"}

\* C3 amended: for a record whose boot signature is zero or within the
\* tolerance of the caller's, naming a live process whose command line matches
\* the recorded one, acquire() requests that process's termination; it gets
\* past the wait, and so returns successfully, only after that PID has been
\* observed gone or zombie; it fails only after the deadline has elapsed, and
\* then the caller does not take the lock.
C3_Takeover ==
  /\ [](\A p \in Pids :
          /\ PastWait(p) => termBy[p] \subseteq seenGone[p]
          /\ lpc[p] = "failed" => (~active[p] /\ expired[p]))
  /\ [][\A p \in Pids :
          (/\ lpc[p] = "acq_check" /\ lpc'[p] # "acq_check" /\ pstat'[p] = "running"
           /\ owner[p] # NoRec
           /\ ~BootStale(owner[p], p)
           /\ pstat[owner[p].pid] = "running"
           /\ CommandsEquivalent(owner[p].cmd, ActualCmd(inv[owner[p].pid])))
          => lpc'[p] = "acq_term"]_lockVars

\* A process holds the lock after it took it over from a process it asked to
\* terminate and saw gone.
C3_Witness ==
  \E p \in Pids : Holds(p) /\ active[p] /\ termLive[p] \ {p} # {} /\ file.rec.pid = p

\* C4: release() deletes the lock file only if the record stored in it carries
\* the caller's own PID: it never deletes a lock file that holds a different
\* process's record.
C4_ReleaseDeletesOwnOnly ==
  [][\A p \in Pids :
       (lpc[p] = "rel_unlink" /\ lpc'[p] = "released" /\ file.exists /\ file.rec # NoRec)
       => file.rec.pid = p]_lockVars

\* C5: release() is idempotent: once release() has returned the lock is not
\* held by the caller, and a release() on a lock that is not held by the
\* caller changes neither the lock file nor any ownership state, and fails
\* in no way.
C5_ReleaseIdempotent ==
  /\ [](\A p \in Pids : lpc[p] = "released" => ~active[p])
  /\ [][\A p \in Pids :
          (~active[p] /\ relCalls'[p] = relCalls[p] + 1)
          => (file' = file /\ active' = active /\ lpc' = lpc /\ owner' = owner)]_lockVars

\* A process has called release() twice in a row.
C5_Witness == \E p \in Pids : lpc[p] = "released" /\ relCalls[p] = 2 /\ ~file.exists

(***************************************************************************)
(* Claims about the triggers and the recording session, checked under Spec.*)
(***************************************************************************)

\* The names on_press reports for the keys that are physically down.
HeldNames == {KeyName(c) : c \in UNION {CharsOf(k) : k \in held}}

\* C6: after any sequence of key-down and key-up events (no control operation
\* has been called: the keyboard trigger is enabled as configured and the
\* service is not paused), the keyboard trigger is active if and only if the
\* configured key-part set is non-empty and is a subset of the keys that are
\* currently pressed.
C6_KeyboardTrigger ==
  (ctlOps = 0 /\ keyboard_enabled /\ ~paused)
  => /\ pressed_keys = HeldNames
     /\ HotkeyActive <=> (HOTKEY_PARTS # {} /\ HOTKEY_PARTS \subseteq HeldNames)

\* A two-key hotkey started a session and one of its keys has gone up since:
\* the session is over and the trigger is not active.
C6_Witness ==
  /\ ctlOps = 0 /\ keyboard_enabled /\ ~mouse_enabled
  /\ Cardinality(HOTKEY_PARTS) = 2
  /\ held = {"d"} /\ Len(workers) = 1
  /\ ~HotkeyActive

\* The two conditions of the truth table, without the enable flags.
KeyboardSatisfied == HOTKEY_PARTS # {} /\ HOTKEY_PARTS \subseteq pressed_keys
MouseSatisfied == MOUSE_BUTTON # "none" /\ mouse_pressed

\* C7: for all four combinations of the keyboard-enabled and mouse-enabled
\* flags and every pressed-key / mouse-pressed state, the combined trigger
\* predicate is (keyboard satisfied or mouse satisfied) when both are enabled,
\* the keyboard condition alone when only the keyboard is enabled, the mouse
\* condition alone when only the mouse is enabled, false when neither is.
C7_TruthTable ==
  TriggersActive =
    CASE keyboard_enabled /\ mouse_enabled   -> KeyboardSatisfied \/ MouseSatisfied
      [] keyboard_enabled /\ ~mouse_enabled  -> KeyboardSatisfied
      [] ~keyboard_enabled /\ mouse_enabled  -> MouseSatisfied
      [] ~keyboard_enabled /\ ~mouse_enabled -> FALSE

\* Both triggers are enabled and only the mouse button is down: the predicate
\* is true on the mouse condition alone.
C7_Witness ==
  /\ keyboard_enabled /\ mouse_enabled
  /\ ~KeyboardSatisfied /\ MouseSatisfied
  /\ TriggersActive

\* C8 as stated, between events: the recording flag is never true while the
\* trigger predicate is false.
C8_FlagOnlyWhileActive == Quiescent => (recording => TriggersActive)

C10_StopWhenInactive ==
  [][(recording /\ TriggersActive /\ ~TriggersActive')
     => \E t \in Hooks : hpc[t] = "idle" /\ hpc'[t] = "stop_chk"]_vars

\* C11 as stated: once set_paused(true) has returned, the recording flag is
\* false and the audio buffer is empty.
C11_PauseDiscards ==
  (paused /\ Quiescent) => (~recording /\ audio_data = <<>>)

\* C12 as stated: in every state in which set_paused(true) has returned and no
\* resume has happened since, the recording flag is false and no microphone
\* stream is open.
C12_PausedIsQuiet ==
  (paused /\ cpc = "idle") => (~recording /\ ~audio_stream /\ live = 0)

\* C13 as stated: at most one microphone stream is live at any time.
C13_OneStream == live <= 1

\* C14: in continuous-listen mode a non-forced stop of the capture leaves the
\* stream handle and the open stream unchanged; a forced stop (set_paused,
\* _set_continuous_listen) clears the handle whatever the continuous-listen
\* flag is, and once it has returned no stream is open.
C14_StopFrame ==
  /\ [][\A t \in Hooks :
          (hpc[t] = "stop_cap" /\ hpc'[t] # "stop_cap" /\ continuous_listen)
          => (audio_stream' = audio_stream /\ live' = live /\ hpc'[t] = "stop_drain")]_vars
  /\ [][(cpc = "p_cap" /\ cpc' # "p_cap")
        => (~audio_stream' /\ (cpc' = "idle" => live' = 0))]_vars
  /\ [][(cpc = "c_branch" /\ cpc' # "c_branch" /\ ~continuous_listen /\ ~recording)
        => (~audio_stream' /\ (cpc' = "idle" => live' = 0))]_vars
  /\ [][(cpc = "x_close" /\ cpc' = "idle") => (~audio_stream' /\ live' = 0)]_vars

\* In continuous-listen mode a session has ended with the stream left open,
\* and the forced stop of set_paused(true) has then taken that stream.
C14_Witness ==
  /\ continuous_listen /\ paused /\ ctlOps = 1
  /\ Len(workers) = 1
  /\ cpc = "x_close" /\ cstream /\ ~audio_stream

\* C15: if opening the microphone fails when a trigger becomes active, the
\* start returns false, the error is reported, the recording flag stays false
\* and no stream handle is kept; the handler returns and the service is idle.
\* A start that does not fail has a stream handle and goes on to open the
\* session.
C15_FailedStart ==
  /\ [][\A t \in Hooks :
          (hpc[t] = "start_cap" /\ hpc'[t] # "start_cap")
          => \/ /\ hpc'[t] = "idle"
                /\ "capture" \in errors'
                /\ ~recording' /\ ~audio_stream' /\ live' = live
             \/ /\ hpc'[t] = "start_flag"
                /\ audio_stream' /\ live' > 0 /\ errors' = errors]_vars
  /\ []((Quiescent /\ "capture" \in errors) => ~recording)

\* With no control operation called, a session has been opened by an event
\* before which the trigger was already active: an earlier start had failed
\* and this later one, with a working device, has succeeded.
C15_Witness ==
  \E t \in Hooks :
    /\ ctlOps = 0 /\ hpre[t]
    /\ hpc[t] = "start_reset" /\ recording /\ audio_stream /\ live = 1

\* The buffer of the latest session has been swapped out by the thread that
\* ended the session.
Drained ==
  \/ \E t \in Hooks : hpc[t] = "stop_spawn"
  \/ \E i \in 1..Len(workers) : workers[i].sess = sess

\* C16 as stated: no chunk is appended to the buffer after the session's
\* buffer has been drained: the drain happens after the last append.
C16_DrainAfterLastAppend ==
  [][(apc = "append" /\ apc' = "idle") => ~(~recording /\ Drained)]_vars

(***************************************************************************)
(* Claims about the silence heuristic, checked under SilenceSpec.          *)
(***************************************************************************)

\* C17: the silence heuristic classifies as silence every buffer whose samples
\* are all zero, whatever its length, and every buffer shorter than 1600
\* samples, whatever its contents.
C17_ZeroOrShortIsSilence ==
  (silent # "none" /\ (Peak(raw) = 0 \/ NSamples(raw) < min_samples))
  => silent = "yes"

\* A buffer of 1601 zero samples has been classified as silence.
C17_Witness ==
  silent = "yes" /\ Peak(raw) = 0 /\ NSamples(raw) > min_samples

\* C18 as stated: a buffer that contains a sample whose absolute amplitude is
\* at least the threshold is never classified as silence.
C18_Original ==
  (silent # "none" /\ Peak(raw) >= silence_threshold) => silent = "no"

\* C18 amended: a buffer of at least 1600 samples that contains a sample whose
\* absolute amplitude is at least the threshold is never classified as
\* silence.
C18_LoudLongNotSilence ==
  (silent # "none" /\ NSamples(raw) >= min_samples /\ Peak(raw) >= silence_threshold)
  => silent = "no"

\* A buffer of exactly 1600 samples whose peak is exactly the threshold has
\* been classified as speech.
C18_Witness ==
  silent = "no" /\ NSamples(raw) = min_samples /\ Peak(raw) = silence_threshold

(***************************************************************************)
(* Claims about the workers, checked under WorkerSpec.                     *)
(***************************************************************************)

\* C19: for a worker whose snapshot is empty or is classified as silence, the
\* transcription provider is never called and no keystrokes are injected, and
\* nothing is reported as an error (the worker ends normally).
C19_SilentSnapshotNoCall ==
  \A w \in Workers :
    (wpc[w] # "none" /\ (wsnap[w] = <<>> \/ IsSilence(wsnap[w])))
    => /\ LogOf(w) = {}
       /\ wpc[w] \in {"empty_chk", "silence_chk", "done"}

\* A worker has ended on a non-empty snapshot classified as silence and
\* another one on an empty snapshot.
C19_Witness ==
  \E u, v \in Workers :
    /\ wpc[u] = "done" /\ wsnap[u] # <<>> /\ IsSilence(wsnap[u])
    /\ wpc[v] = "done" /\ wsnap[v] = <<>>

\* C20: if the transcription provider call fails for an utterance, the
\* failure is reported through the error handler and no keystrokes are
\* injected for that utterance.
C20_FailureReportedNotTyped ==
  \A w \in Workers :
    ("fail" \in LogOf(w) /\ wpc[w] \in {"done", "crashed"})
    => ("error" \in LogOf(w) /\ "typed" \notin LogOf(w))

\* C21: with correction enabled, after any failure of the corrector call the
\* worker goes on with the uncorrected transcript through conversion,
\* normalization and typing: the failure never ends the pipeline.
C21_CorrectionFailureFallsBack ==
  \A w \in Workers :
    "corr_fail" \in LogOf(w)
    => /\ wcur[w][1] = wtext[w]
       /\ \A i \in DOMAIN wcur[w] : wcur[w][i] # "corrected"
       /\ \/ wpc[w] \in {"convert", "normalize", "type", "done"}
          \/ wpc[w] = "crashed" /\ wcur[w][Len(wcur[w])] = "processed"

\* C22: no worker ends with an exception nobody handled.
C22_NoUnhandledException == \A w \in Workers : wpc[w] # "crashed"

\* The text the stages give for worker w, applied in the order correction,
\* conversion, normalization to the provider's text.
Expected(w) ==
  LET a == <<wtext[w]>>
      b == IF "corr_call" \in LogOf(w) /\ "corr_fail" \notin LogOf(w)
           THEN Corrected(a) ELSE a
      c == IF CHINESE_CONVERSION # ""
           THEN convert_chinese(b, CHINESE_CONVERSION) ELSE b IN
  process_transcript(c)

\* C23: the typed text is the provider's text after correction, conversion
\* and normalization in this order; the corrector is called only when
\* LLM_CORRECT enables it and the conversion is applied only with a code;
\* with neither, the typed text is the normalization of exactly the
\* provider's text.
C23_StagesInOrder ==
  \A w \in Workers :
    "typed" \in LogOf(w)
    => /\ wcur[w] = Expected(w)
       /\ "corr_call" \in LogOf(w) <=> LLM_CORRECT \in {"true", "1", "yes"}
       /\ (LLM_CORRECT \notin {"true", "1", "yes"} /\ CHINESE_CONVERSION = "")
          => wcur[w] = process_transcript(<<wtext[w]>>)

\* A worker has typed a text that went through all four stages, while
\* another worker's correction failed and its uncorrected text was typed.
C23_Witness ==
  \E v, w \in Workers :
    /\ "typed" \in LogOf(w)
    /\ wcur[w] = <<"text", "corrected", "s2t", "processed">>
    /\ "typed" \in LogOf(v) /\ "corr_fail" \in LogOf(v)
    /\ wcur[v] = <<"text", "s2t", "processed">>

(***************************************************************************)
(* Claims about the corrector's history, checked under CorrectorSpec.      *)
(***************************************************************************)

LastN(s, n) == IF Len(s) <= n THEN s ELSE SubSeq(s, Len(s) - n + 1, Len(s))

\* C24: the history holds at most 10 entries and equals the most recent (up
\* to 10) successfully corrected transcripts in the order they were produced;
\* a call that failed, whether it returned the transcript or raised, leaves
\* the history as it was.
C24_HistoryIsLastTen ==
  /\ [](Len(history) <= maxlen /\ history = LastN(good, maxlen))
  /\ [][(ncalls' = ncalls + 1 /\ clast'.o # "ok") => history' = history]_vars
  /\ [][(ncalls' = ncalls + 1 /\ clast'.o = "ok")
          => /\ history'[Len(history')] = clast'.text
             /\ Len(history) = maxlen
                => \A i \in 1..(maxlen - 1) : history'[i] = history[i + 1]]_vars

\* The eleventh correction has evicted the oldest entry, after a failed
\* call that left the history alone.
C24_Witness ==
  /\ Len(good) = maxlen + 1
  /\ Len(history) = maxlen
  /\ history[1] # good[1]
  /\ ncalls > Len(good)
  /\ clast.o = "ok"

(***************************************************************************)
(* Claims about the configuration, checked under ImportSpec and Spec.      *)
(***************************************************************************)

\* C25: whenever a hotkey label with an unrecognized key name is applied, at
\* start-up or by refresh_configuration, the key-part set and the label stay
\* as they were, an error is reported, and the service keeps running.
C25_InvalidHotkeyRejected ==
  /\ [][(cpc = "import" /\ cpc' # "import" /\ key_label = <<"bogus">>)
          => /\ cpc' = "idle"
             /\ "hotkey" \in errors'
             /\ UNCHANGED <<HOTKEY_PARTS, key_label>>]_vars
  /\ [][(cpc = "idle" /\ cpc' = "r_mouse" /\ carg'.settings.hotkey = <<"bogus">>)
          => /\ "hotkey" \in errors'
             /\ UNCHANGED <<HOTKEY_PARTS, key_label>>]_vars

\* The runtime state refresh_configuration sets.
Runtime ==
  <<HOTKEY_PARTS, MOUSE_BUTTON, keyboard_enabled, mouse_enabled,
    continuous_listen, pressed_keys, audio_stream>>

\* A step of the second application of the settings object.
SecondApplication == ctlOps' = MaxCtl /\ (cpc # "idle" \/ cpc' # "idle")

\* C26 as stated: the second application of the same settings object, with no
\* input event since the first, leaves the runtime state as the first left it.
C26_Original == [][SecondApplication => UNCHANGED Runtime]_vars

\* C26 amended: the second application leaves the runtime state as the first
\* left it, except that a microphone the first application failed to open
\* (continuous listening on, not paused) is opened by the second when the
\* device now answers.
C26_SecondApplicationKeepsState ==
  [][SecondApplication
       => /\ UNCHANGED <<HOTKEY_PARTS, MOUSE_BUTTON, keyboard_enabled,
                         mouse_enabled, continuous_listen, pressed_keys>>
          /\ \/ UNCHANGED audio_stream
             \/ /\ continuous_listen /\ ~paused
                /\ ~audio_stream /\ audio_stream']_vars

\* The settings with a two-part hotkey have been applied twice while a
\* recording was going on, and the microphone is open.
C26_Witness ==
  /\ ctlOps = MaxCtl /\ cpc = "idle"
  /\ chosen.hotkey = <<"ctrl_r", " d">>
  /\ HOTKEY_PARTS = {"ctrl_r", "d"}
  /\ recording /\ audio_stream

\* C27: once refresh_configuration(settings) has returned for settings with
\* valid values, the key parts and the mouse button are the ones named and
\* the enable flags and the continuous-listen flag have the given values.
C27_RuntimeEqualsSettings ==
  (ctlOps >= 1 /\ cpc = "idle" /\ chosen.hotkey # <<"bogus">>)
  => /\ HOTKEY_PARTS = ParseHotkey(chosen.hotkey).parts
     /\ MOUSE_BUTTON = ParseMouseButton(chosen.mouse_button).button
     /\ keyboard_enabled = chosen.kb
     /\ mouse_enabled = chosen.ms
     /\ continuous_listen = chosen.cont

(***************************************************************************)
(* Claims about stopping the service, checked under StopRunSpec.           *)
(***************************************************************************)

\* C28: after run() has returned, both listeners have been stopped and
\* joined and no stream is open.
C28_NoStreamAfterReturn ==
  rpc = "returned"
  => /\ \A t \in Hooks : hpc[t] = "idle"
     /\ ~audio_stream
     /\ live = 0

\* C29: the service runs only in a process whose acquire() has returned, and
\* in that process only until exit_app; a process whose acquire() raised the
\* takeover error never runs the service, and the one step its main() takes
\* is the return of exit code 0.
C29_ServiceOnlyAfterAcquire ==
  /\ [](\A p \in Pids :
          /\ mainpc[p] = "service" => (lpc[p] = "held" /\ pstat[p] = "running")
          /\ lpc[p] = "failed" => mainpc[p] \in {"lock", "exit0"})
  /\ [][\A p \in Pids :
          (lpc[p] = "failed" /\ lpc'[p] = "failed" /\ mainpc'[p] # mainpc[p])
            => mainpc'[p] = "exit0"]_vars

\* One process has returned 0 after its acquire() failed while another holds
\* the lock and runs the service.
C29_Witness ==
  \E p, q \in Pids :
    /\ lpc[p] = "failed" /\ mainpc[p] = "exit0"
    /\ lpc[q] = "held" /\ mainpc[q] = "service"

\* The worker of the w-th utterance is between its first statement and its
\* end.
WorkerRunning(w) == wpc[w] \notin {"none", "done", "crashed"}

\* C30: a recording session starts (recording is set and the session count
\* goes up) only when the worker of the previous session is not running.
C30_NoStartWhileWorkerRuns ==
  [][sess' > sess
       => \A w \in DOMAIN workers :
            workers[w].sess = sess => ~WorkerRunning(w)]_vars

\* The step process p takes now, unless it dies in it.
Moves(p) == lpc'[p] # lpc[p] /\ pstat'[p] = "running"

\* C31: when _read_owner gave None (the file is empty, unreadable or gone),
\* acquire() goes to _cleanup_stale without asking any process to terminate,
\* the file is removed and the open is tried again.
C31_UnreadableIsStale ==
  [][\A p \in Pids :
       /\ (lpc[p] = "acq_check" /\ owner[p] = NoRec /\ Moves(p))
            => /\ lpc'[p] = "acq_cleanup"
               /\ termReq' = termReq /\ termBy' = termBy
       /\ (lpc[p] = "acq_cleanup" /\ owner[p] = NoRec /\ Moves(p))
            => /\ lpc'[p] = "acq_open"
               /\ ~file'.exists
               /\ termReq' = termReq /\ termBy' = termBy]_vars

\* A process found the file another process had created and not yet
\* written, and is about to remove it, having asked nobody to terminate.
C31_Witness ==
  \E p, q \in Pids :
    /\ p # q
    /\ lpc[p] = "acq_cleanup" /\ owner[p] = NoRec /\ termBy[p] = {}
    /\ file.exists /\ file.rec = NoRec /\ file.creator = q
    /\ lpc[q] = "acq_write"

\* The record process p read was written under another boot signature.
BootDiffers(p) ==
  owner[p] # NoRec /\ Abs(owner[p].boot - boot[p]) > Tolerance

\* The steps acquire() takes for a record it holds stale: to the cleanup
\* without a termination request, then the removal and the retry.
StaleSteps(p) ==
  /\ (lpc[p] = "acq_check" /\ Moves(p))
       => /\ lpc'[p] = "acq_cleanup"
          /\ termReq' = termReq /\ termBy' = termBy
  /\ (lpc[p] = "acq_cleanup" /\ Moves(p))
       => /\ lpc'[p] = "acq_open"
          /\ ~file'.exists
          /\ termReq' = termReq /\ termBy' = termBy

\* C32 as stated: every record whose boot signature differs from the current
\* one by more than the tolerance is removed without a termination request.
C32_Original ==
  [][\A p \in Pids : BootDiffers(p) => StaleSteps(p)]_vars

\* C32: every record whose boot signature is known (not 0.0) and differs
\* from the current one by more than the tolerance is removed and the open
\* retried, without a termination request, whoever is at the recorded pid.
C32_KnownBootMismatchIsStale ==
  [][\A p \in Pids :
       (BootDiffers(p) /\ owner[p].boot # 0) => StaleSteps(p)]_vars

\* A record of another boot is about to be removed while the process it
\* names is running and matches the recorded command.
C32_Witness ==
  \E p \in Pids :
    /\ lpc[p] = "acq_cleanup"
    /\ BootDiffers(p) /\ owner[p].boot # 0
    /\ owner[p].pid # p
    /\ pstat[owner[p].pid] = "running"
    /\ ProcessMatches(owner[p].pid, owner[p].cmd)
    /\ termBy[p] = {}

\* refresh_configuration has just run _set_record_key.
HotkeyStep == cpc = "idle" /\ cpc' = "r_mouse"

\* C33: a _set_record_key that succeeds (a valid hotkey or none) leaves
\* pressed_keys empty and the keyboard trigger inactive, and pressed_keys
\* gets a member again only when on_press is called.
C33_ReconfigurationClearsPressed ==
  /\ [][(HotkeyStep /\ "hotkey" \notin errors')
          => /\ pressed_keys' = {}
             /\ ~(keyboard_enabled' /\ HOTKEY_PARTS' # {}
                   /\ HOTKEY_PARTS' \subseteq pressed_keys')]_vars
  /\ [][(pressed_keys = {} /\ pressed_keys' # {})
          => (hpc["kb"] = "idle" /\ hpc'["kb"] = "start_chk")]_vars

\* The hotkey was reconfigured while a key of the old one was held down and
\* a session was being recorded.
C33_Witness ==
  /\ cpc = "r_mouse" /\ carg.op = "refresh" /\ errors = {}
  /\ held # {} /\ recording
  /\ pressed_keys = {} /\ HOTKEY_PARTS # {}

\* C34: when set_paused(False) returns, in continuous-listen mode a stream
\* is open unless the device failed to open (an error was reported); out of
\* continuous-listen mode the handle and the streams are as they were.
C34_ResumeRestoresCapture ==
  [][(cpc = "p_resume" /\ cpc' = "idle")
       => IF continuous_listen
          THEN "capture" \notin errors' => (audio_stream' /\ live' >= 1)
          ELSE audio_stream' = audio_stream /\ live' = live]_vars

\* A session was cut short by a pause (no worker was started for it), which
\* closed the stream; the resume that followed has returned and the stream of
\* continuous listening is open again.
C34_Witness ==
  /\ cpc = "idle" /\ ctlOps = 2 /\ ~paused
  /\ sess = 1 /\ workers = <<>> /\ ~recording
  /\ \A t \in Hooks : hpc[t] = "idle"
  /\ continuous_listen /\ audio_stream /\ live = 1

\* C35: whenever recording is set, the stream handle is set.
C35_RecordingHasStream == recording => audio_stream

\* The configured hotkey or the configured button is physically held.
PhysicalTrigger ==
  \/ keyboard_enabled /\ HOTKEY_PARTS # {} /\ HOTKEY_PARTS \subseteq held
  \/ mouse_enabled /\ MOUSE_BUTTON = "middle" /\ mheld

\* C36: a session starts only while the configured trigger is physically
\* held, pauses and resumes included.
C36_SessionNeedsHeldTrigger ==
  [][sess' > sess => PhysicalTrigger]_vars

\* The same before the first pause.
C36_BeforeAnyPause ==
  [][(sess' > sess /\ ctlOps = 0) => PhysicalTrigger]_vars

\* The blocks of the snapshot of worker w, by id.
SnapshotIds(w) == {workers[w].chunks[i].id : i \in DOMAIN workers[w].chunks}

\* C37: every block of a worker's snapshot was delivered while that worker's
\* session was recording, the blocks are in delivery order, and no block is
\* in the snapshots of two workers.
C37_SnapshotOfOwnSession ==
  /\ \A w \in DOMAIN workers :
       /\ \A id \in SnapshotIds(w) : born[id] = workers[w].sess
       /\ \A i, j \in DOMAIN workers[w].chunks :
            i < j => workers[w].chunks[i].id < workers[w].chunks[j].id
  /\ \A v, w \in DOMAIN workers : v # w => SnapshotIds(v) \cap SnapshotIds(w) = {}

\* C38: with the keyboard and the mouse hooks on their own threads, one
\* recording session produces at most one worker (and so one drain of the
\* buffer): no two workers were started for the same session.
C38_OneWorkerPerSession ==
  \A v, w \in DOMAIN workers : v # w => workers[v].sess # workers[w].sess

\* C39: in the stream of injected keystrokes, those of one worker form one
\* contiguous run: no keystroke of another worker lies between two of them.
C39_TypingNotInterleaved ==
  \A i, j, k \in DOMAIN wlog :
    (i < j /\ j < k
     /\ wlog[i].ev = "key" /\ wlog[j].ev = "key" /\ wlog[k].ev = "key"
     /\ wlog[i].w = wlog[k].w)
    => wlog[j].w = wlog[i].w

\* The positions of a process inside acquire().
Acquiring ==
  {"acq_open", "acq_read", "acq_check", "acq_term", "acq_wait", "acq_cleanup",
   "acq_write"}

\* C40: under fair scheduling and with finitely many process creations, a
\* process inside acquire() leaves it: it returns holding the lock, raises
\* SingleInstanceError, or is no longer there.
C40_AcquireTerminates ==
  \A p \in Pids : (lpc[p] \in Acquiring) ~> (lpc[p] \notin Acquiring)

\* A process asked the owner to terminate, saw it gone while waiting,
\* removed the file, went round the loop again and returned with the lock,
\* while the other process is inside acquire().
C40_Witness ==
  \E p, q \in Pids :
    /\ lpc[p] = "held" /\ termBy[p] # {} /\ seenGone[p] # {}
    /\ lpc[q] \in Acquiring

====
